------------------------------ MODULE Sessions ------------------------------
(***************************************************************************)
(* What the token table of main/auth_service.c promises the web UI, with   *)
(* no slots and no purging: a session is accepted from the login that      *)
(* opened it until it expires, is logged out, or gives way to a new login  *)
(* while the table is full of sessions that are all still valid.           *)
(***************************************************************************)
EXTENDS Naturals, FiniteSets

CONSTANTS
    Tokens,     \* the token values
    Lifetimes,  \* the lifetimes a login can ask for
    Capacity    \* how many sessions can be valid at a time

VARIABLES
    sessions,  \* the valid sessions
    clock,     \* the time since boot
    known,     \* history: the tokens handed out, over all boots
    verdict    \* the last token checked, and the answer

absVars == <<sessions, clock, known, verdict>>

LiveTokens == {s.token : s \in sessions}

Init ==
    /\ sessions = {}
    /\ clock = 0
    /\ known = {}
    /\ verdict = [checked |-> FALSE]

(* A login opens one session; at most one other gives way to it, and only  *)
(* when there is no room.                                                  *)
Open(t, life) ==
    /\ t \notin known
    /\ known' = known \cup {t}
    /\ \E displaced \in SUBSET sessions :
          /\ IF Cardinality(sessions) < Capacity
             THEN displaced = {}
             ELSE \E s \in sessions : displaced = {s}
          /\ sessions' = (sessions \ displaced)
                            \cup {[token |-> t, expires |-> clock + life]}
    /\ UNCHANGED <<clock, verdict>>

Close(t) ==
    /\ sessions' = {s \in sessions : s.token # t}
    /\ UNCHANGED <<clock, known, verdict>>

Check(t) ==
    /\ verdict' = [checked |-> TRUE, token |-> t, ok |-> t \in LiveTokens]
    /\ UNCHANGED <<sessions, clock, known>>

Tick ==
    /\ clock' = clock + 1
    /\ sessions' = {s \in sessions : s.expires > clock'}
    /\ UNCHANGED <<known, verdict>>

Restart ==
    /\ sessions' = {}
    /\ clock' = 0
    /\ verdict' = [checked |-> FALSE]
    /\ UNCHANGED known

Next ==
    \/ \E t \in Tokens, life \in Lifetimes : Open(t, life)
    \/ \E t \in Tokens : Close(t) \/ Check(t)
    \/ Tick
    \/ Restart

Spec == Init /\ [][Next]_absVars

=============================================================================
