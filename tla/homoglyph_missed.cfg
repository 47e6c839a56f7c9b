SPECIFICATION TyposquatSpec
CONSTANTS
  Letter <- MCLetter
  Brand <- MCBrand
  Name <- MCName
  LongLabel = 7
  TokenLabel = 5
INVARIANT LookalikesAreHits
