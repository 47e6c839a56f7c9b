---------------------------- MODULE Registration ----------------------------
(***************************************************************************)
(* routers/auth.py register: requests for an account that run side by side. *)
(* The unique columns email and invite_code of the users table settle what *)
(* the look-up before the insert cannot.                                   *)
(***************************************************************************)
EXTENDS Naturals, FiniteSets

CONSTANTS
    Email,     \* addresses people register
    Code,      \* the invite codes that new_invite_code can return
    NoCode,    \* "no account"
    Attempt,   \* requests to /auth/register
    MaxRolls   \* how often a request rolls an invite code: 5

ASSUME RegistrationAssumption == NoCode \notin Code /\ MaxRolls \in Nat \ {0}

VARIABLES
    users,     \* the invite code of each address, or NoCode when it has no account
    attempt    \* the state of each request

registrationVars == <<users, attempt>>

\* "created" is the 200, "conflict" the 409, "nocode" and "error" are both a 500.
AttemptRecord ==
    [st    : {"new", "insert", "created", "conflict", "nocode", "error"},
     email : Email,
     rolls : 0..MaxRolls,
     code  : Code \cup {NoCode}]

RegistrationTypeOK ==
    /\ users \in [Email -> Code \cup {NoCode}]
    /\ attempt \in [Attempt -> AttemptRecord]

\* Each request comes with an address, in any case of letters: it is lowered first.
RegistrationInit ==
    /\ users = [m \in Email |-> NoCode]
    /\ attempt \in [Attempt -> {[st |-> "new", email |-> m, rolls |-> 0, code |-> NoCode] : m \in Email}]

-----------------------------------------------------------------------------
Registered(m) == users[m] # NoCode
CodeTaken(c)  == \E m \in Email : users[m] = c

\* fetch_by_email
LookUpEmail(a) ==
    /\ attempt[a].st = "new"
    /\ attempt' = [attempt EXCEPT ![a].st = IF Registered(attempt[a].email) THEN "conflict" ELSE "insert"]
    /\ UNCHANGED users

\* MUTANT of EmailRefused: the insert is an upsert, as for the push subscriptions.
EmailRefusedNever(m) == m \notin Email

\* The unique index on email raises.
EmailRefused(m) == Registered(m)

\* INSERT INTO users ... ON CONFLICT (invite_code) DO NOTHING: a code that is taken is
\* rolled again, an address that is taken is an error.
InsertUser(a) ==
    /\ attempt[a].st = "insert"
    /\ \E c \in Code :
         LET m    == attempt[a].email
             last == attempt[a].rolls + 1 = MaxRolls
         IN  \/ /\ CodeTaken(c)
                /\ attempt' = [attempt EXCEPT ![a].rolls = @ + 1, ![a].st = IF last THEN "nocode" ELSE "insert"]
                /\ UNCHANGED users
             \/ /\ ~CodeTaken(c) /\ EmailRefused(m)
                /\ attempt' = [attempt EXCEPT ![a].st = "error"]
                /\ UNCHANGED users
             \/ /\ ~CodeTaken(c) /\ ~EmailRefused(m)
                /\ attempt' = [attempt EXCEPT ![a].st = "created", ![a].code = c]
                /\ users' = [users EXCEPT ![m] = c]

\* Every request has its answer.
AllAnswered ==
    /\ \A a \in Attempt : attempt[a].st \notin {"new", "insert"}
    /\ UNCHANGED registrationVars

RegistrationNext ==
    \/ \E a \in Attempt : LookUpEmail(a) \/ InsertUser(a)
    \/ AllAnswered

RegistrationSpec == RegistrationInit /\ [][RegistrationNext]_registrationVars

-----------------------------------------------------------------------------
\* auth.py register: of all requests for one address one is told that the account is
\* its own, the code it was given stays the code of that address, and belongs to no
\* other: invite_dependent finds a ward by the code alone.
CreatedMeansOwner ==
    \A a \in Attempt : attempt[a].st = "created" =>
        /\ users[attempt[a].email] = attempt[a].code
        /\ \A b \in Attempt \ {a} : attempt[b].st = "created" =>
             attempt[b].email # attempt[a].email /\ attempt[b].code # attempt[a].code
=============================================================================
