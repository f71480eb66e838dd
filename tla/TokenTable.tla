----------------------------- MODULE TokenTable -----------------------------
(***************************************************************************)
(* The session tokens of main/auth_service.c: the static array s_tokens,   *)
(* its lazy purge, and the three operations on it.  Each operation is one  *)
(* step here: the HTTPS task and web_api_task use the table by turns as    *)
(* long as no web API call has timed out (module Gateway).                 *)
(*                                                                         *)
(* random_hex_string draws 192 bits: a token it returns has never been     *)
(* drawn before.  A token is a value of the set Tokens, never a string.    *)
(***************************************************************************)
EXTENDS Naturals

CONSTANTS
    Tokens,         \* what random_hex_string(24, ...) can return
    NoToken,        \* the empty string
    MaxTokens,      \* AUTH_MAX_TOKENS
    SessionLife,    \* AUTH_SESSION_HOURS_US
    RememberLife,   \* AUTH_REMEMBER_DAYS_US
    MaxTime         \* bound on esp_timer_get_time

ASSUME TokenTableAssumption ==
    /\ NoToken \notin Tokens
    /\ MaxTokens \in Nat \ {0}
    /\ SessionLife \in Nat \ {0}
    /\ RememberLife \in Nat \ {0}
    /\ MaxTime \in Nat

VARIABLES
    slots,    \* s_tokens
    now,      \* esp_timer_get_time(), in steps of the lifetimes' unit
    issued,   \* history: the tokens ever drawn, over all boots
    verdict   \* the last token verified, and the answer

tokenVars == <<slots, now, issued, verdict>>

Slots == 0..(MaxTokens - 1)

(* An entry after memset. *)
EmptySlot == [used |-> FALSE, token |-> NoToken, expires_at |-> 0]

Entries == [used : BOOLEAN, token : Tokens \cup {NoToken}, expires_at : Nat]

TokenInit ==
    /\ slots = [i \in Slots |-> EmptySlot]
    /\ now = 0
    /\ issued = {}
    /\ verdict = [checked |-> FALSE]

-----------------------------------------------------------------------------

Expired(entry) == entry.used /\ entry.expires_at <= now

(* The table after purge_expired_tokens. *)
Purged == [i \in Slots |-> IF Expired(slots[i]) THEN EmptySlot ELSE slots[i]]

First(S) == CHOOSE i \in S : \A j \in S : i <= j

(* Mutant: a full table gives up its last slot. *)
TargetLastSlot(table) ==
    LET free == {i \in Slots : ~table[i].used}
    IN  IF free = {} THEN MaxTokens - 1 ELSE First(free)

(* The slot a new token goes to: the first unused one, or slot 0. *)
TargetSlot(table) ==
    LET free == {i \in Slots : ~table[i].used}
    IN  IF free = {} THEN 0 ELSE First(free)

Holding(table, t) == {i \in Slots : table[i].used /\ table[i].token = t}

(* Mutant: the product of the 32-bit constants has become negative. *)
WrappedLifetime(remember_me) ==
    IF remember_me THEN 0 - RememberLife ELSE SessionLife

Lifetime(remember_me) == IF remember_me THEN RememberLife ELSE SessionLife

(* issue_token: purge, pick the slot, fill it with a fresh token. *)
IssueToken(remember_me, t) ==
    /\ t \notin issued
    /\ slots' = [Purged EXCEPT ![TargetSlot(Purged)] =
                    [used |-> TRUE, token |-> t,
                     expires_at |-> now + Lifetime(remember_me)]]
    /\ issued' = issued \cup {t}
    /\ UNCHANGED <<now, verdict>>

(* auth_service_logout: an empty token is accepted and changes nothing;    *)
(* otherwise purge, then clear the first entry that holds the token.       *)
Logout(t) ==
    /\ slots' = IF t = NoToken THEN slots
                ELSE LET found == Holding(Purged, t)
                     IN  IF found = {} THEN Purged
                         ELSE [Purged EXCEPT ![First(found)] = EmptySlot]
    /\ UNCHANGED <<now, issued, verdict>>

(* Mutant: the table is searched before it is purged. *)
VerifiesStale(t) == t # NoToken /\ Holding(slots, t) # {}

(* auth_service_verify_token; it purges too. *)
Verifies(t) == t # NoToken /\ Holding(Purged, t) # {}

Verify(t) ==
    /\ verdict' = [checked |-> TRUE, token |-> t, ok |-> Verifies(t)]
    /\ slots' = IF t = NoToken THEN slots ELSE Purged
    /\ UNCHANGED <<now, issued>>

Tick ==
    /\ now < MaxTime
    /\ now' = now + 1
    /\ UNCHANGED <<slots, issued, verdict>>

(* After a restart the array is zeroed and the timer starts from 0 again. *)
TokenRestart ==
    /\ slots' = [i \in Slots |-> EmptySlot]
    /\ now' = 0
    /\ verdict' = [checked |-> FALSE]
    /\ UNCHANGED issued

TokenNext ==
    \/ \E remember_me \in BOOLEAN, t \in Tokens : IssueToken(remember_me, t)
    \/ \E t \in Tokens \cup {NoToken} : Logout(t) \/ Verify(t)
    \/ Tick
    \/ TokenRestart

TokenSpec == TokenInit /\ [][TokenNext]_tokenVars

-----------------------------------------------------------------------------

Verdicts == [checked : {FALSE}]
               \cup [checked : {TRUE}, token : Tokens \cup {NoToken},
                     ok : BOOLEAN]

TokenTypeOK ==
    /\ slots \in [Slots -> Entries]
    /\ now \in Nat
    /\ issued \subseteq Tokens
    /\ verdict \in Verdicts

(* A login that finds every slot taken displaces slot 0 and no other valid *)
(* session, and one that finds a slot that is unused or has expired        *)
(* displaces no valid session at all (auth_service.c:249-258).             *)
OnlySlotZeroDisplaced ==
    [][issued' # issued =>
          \A i \in Slots :
             slots[i].used /\ ~Expired(slots[i]) /\ slots'[i] # slots[i]
                => /\ i = 0
                   /\ \A j \in Slots : slots[j].used /\ ~Expired(slots[j])
      ]_tokenVars

(* The table implements the abstract sessions: a session is an entry that  *)
(* is used and has not expired yet.                                        *)
LiveSlots == {i \in Slots : slots[i].used /\ slots[i].expires_at > now}

AbstractSessions ==
    {[token |-> slots[i].token, expires |-> slots[i].expires_at] :
        i \in LiveSlots}

Abstract == INSTANCE Sessions WITH
    Tokens    <- Tokens \cup {NoToken},
    Lifetimes <- {SessionLife, RememberLife},
    Capacity  <- MaxTokens,
    sessions  <- AbstractSessions,
    clock     <- now,
    known     <- issued

ImplementsSessions == Abstract!Spec

=============================================================================
