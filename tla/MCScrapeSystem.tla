--------------------------- MODULE MCScrapeSystem ---------------------------
(***************************************************************************)
(* ScrapeSystem with one name, the cron loop and one manual run.           *)
(***************************************************************************)
EXTENDS ScrapeSystem, TLC

CONSTANT site

MCChain == (site :> <<site>>)

Searches      == <<"search">>
FeedAndSearch == <<"feed", "search">>
=============================================================================
