-------------------------- MODULE TokenTableProofs --------------------------
(***************************************************************************)
(* The token table for any number of slots, tokens and lifetimes.          *)
(*                                                                         *)
(* The refinement of Sessions needs one lemma about the slots: a token     *)
(* sits in one slot only, since issue_token draws fresh ones.              *)
(***************************************************************************)
EXTENDS TokenTable, FiniteSetTheorems, WellFoundedInduction, TLAPS

-----------------------------------------------------------------------------
(* The first slot of a set. *)

LEMMA FirstSlot ==
    ASSUME NEW S \in SUBSET Slots, S # {}
    PROVE  First(S) \in S /\ \A j \in S : First(S) <= j
<1>1. S \subseteq Nat
  BY TokenTableAssumption DEF Slots
<1> DEFINE Less == {p \in Nat \X Nat : p[1] < p[2]}
<1>2. IsWellFoundedOn(Less, Nat)
  BY NatLessThanWellFounded DEF OpToRel
<1> HIDE DEF Less
<1>3. PICK i \in S : \A j \in S : ~ (<<j, i>> \in Less)
  BY <1>1, <1>2, WFMin
<1>4. ASSUME NEW j \in S PROVE i <= j
  <2>1. i \in Nat /\ j \in Nat
    BY <1>1
  <2>2. j < i => <<j, i>> \in Less
    BY <2>1 DEF Less
  <2>3. ~ (j < i)
    BY <1>3, <2>2
  <2>4. QED
    BY <2>1, <2>3
<1>5. QED
  BY <1>4 DEF First

(* A new token goes to an unused slot if there is one, else to slot 0. *)
LEMMA TargetOfToken ==
    ASSUME NEW table
    PROVE  LET free == {i \in Slots : ~table[i].used}
           IN  /\ free # {} => TargetSlot(table) \in free
               /\ free = {} => TargetSlot(table) = 0
<1> DEFINE free == {i \in Slots : ~table[i].used}
<1>1. free # {} => First(free) \in free
  BY FirstSlot
<1>2. QED
  BY <1>1 DEF TargetSlot

-----------------------------------------------------------------------------
(* Type correctness. *)

LEMMA EmptySlotType == EmptySlot \in Entries
BY DEF EmptySlot, Entries

LEMMA PurgedType ==
    ASSUME TokenTypeOK
    PROVE  /\ Purged \in [Slots -> Entries]
           /\ \A i \in Slots : Purged[i] = EmptySlot \/ Purged[i] = slots[i]
BY EmptySlotType DEF TokenTypeOK, Purged

(* The entry that issue_token writes. *)
NewEntry(remember_me, t) ==
    [used |-> TRUE, token |-> t, expires_at |-> now + Lifetime(remember_me)]

LEMMA NewEntryType ==
    ASSUME TokenTypeOK, NEW remember_me \in BOOLEAN, NEW t \in Tokens
    PROVE  NewEntry(remember_me, t) \in Entries
<1>1. Lifetime(remember_me) \in Nat
  BY TokenTableAssumption DEF Lifetime
<1>2. QED
  BY <1>1 DEF NewEntry, Entries, TokenTypeOK

LEMMA TokenTypeInit == TokenInit => TokenTypeOK
BY EmptySlotType DEF TokenInit, TokenTypeOK, Verdicts

LEMMA TokenTypeNext == TokenTypeOK /\ [TokenNext]_tokenVars => TokenTypeOK'
<1> SUFFICES ASSUME TokenTypeOK, [TokenNext]_tokenVars PROVE TokenTypeOK'
  OBVIOUS
<1>1. ASSUME NEW remember_me \in BOOLEAN, NEW t \in Tokens,
             IssueToken(remember_me, t)
      PROVE  TokenTypeOK'
  <2>1. slots' = [Purged EXCEPT ![TargetSlot(Purged)] = NewEntry(remember_me, t)]
    BY <1>1 DEF IssueToken, NewEntry
  <2>2. slots' \in [Slots -> Entries]
    BY <2>1, PurgedType, NewEntryType
  <2>3. QED
    BY <1>1, <2>2 DEF IssueToken, TokenTypeOK
<1>2. ASSUME NEW t \in Tokens \cup {NoToken}, Logout(t) PROVE TokenTypeOK'
  BY <1>2, PurgedType, EmptySlotType DEF Logout, TokenTypeOK
<1>3. ASSUME NEW t \in Tokens \cup {NoToken}, Verify(t) PROVE TokenTypeOK'
  <2>1. Verifies(t) \in BOOLEAN
    BY DEF Verifies
  <2>2. verdict' \in Verdicts
    BY <1>3, <2>1 DEF Verify, Verdicts
  <2>3. QED
    BY <1>3, <2>2, PurgedType DEF Verify, TokenTypeOK
<1>4. CASE Tick
  BY <1>4 DEF Tick, TokenTypeOK
<1>5. CASE TokenRestart
  BY <1>5, EmptySlotType DEF TokenRestart, TokenTypeOK, Verdicts
<1>6. CASE UNCHANGED tokenVars
  BY <1>6 DEF tokenVars, TokenTypeOK
<1>7. QED
  BY <1>1, <1>2, <1>3, <1>4, <1>5, <1>6 DEF TokenNext

(* Every variable of the token table keeps its type. *)
THEOREM TokenTypeCorrect == TokenSpec => []TokenTypeOK
BY TokenTypeInit, TokenTypeNext, PTL DEF TokenSpec

-----------------------------------------------------------------------------
(* A token sits in one slot: auth_service_logout stops at the first match. *)
(* This is what the freshness of a drawn token comes to in the table, and  *)
(* serves the refinement below.                                            *)

UniqueTokens ==
    /\ \A i \in Slots : slots[i].used => slots[i].token \in issued
    /\ \A i, j \in Slots :
          slots[i].used /\ slots[j].used /\ slots[i].token = slots[j].token
             => i = j

LEMMA UniqueNext ==
    ASSUME TokenTypeOK, UniqueTokens, [TokenNext]_tokenVars
    PROVE  UniqueTokens'
<1>0. slots \in [Slots -> Entries]
  BY DEF TokenTypeOK
<1>1. ASSUME NEW remember_me \in BOOLEAN, NEW t \in Tokens,
             IssueToken(remember_me, t)
      PROVE  UniqueTokens'
  <2>1. slots' = [Purged EXCEPT ![TargetSlot(Purged)] = NewEntry(remember_me, t)]
    BY <1>1 DEF IssueToken, NewEntry
  <2>2. NewEntry(remember_me, t).token = t
    BY DEF NewEntry
  <2>3. \A i \in Slots : slots'[i].used =>
           \/ i = TargetSlot(Purged) /\ slots'[i].token = t
           \/ slots'[i] = slots[i]
    BY <2>1, <2>2, PurgedType DEF EmptySlot
  <2>4. t \notin issued /\ issued' = issued \cup {t}
    BY <1>1 DEF IssueToken
  <2>5. QED
    BY <2>3, <2>4 DEF UniqueTokens
<1>2. CASE /\ issued' = issued
           /\ \A i \in Slots : slots'[i].used => slots'[i] = slots[i]
  BY <1>2 DEF UniqueTokens
<1>3. ASSUME NEW t \in Tokens \cup {NoToken}, Logout(t) \/ Verify(t)
      PROVE  UniqueTokens'
  <2>1. \A i \in Slots : slots'[i] = EmptySlot \/ slots'[i] = slots[i]
    BY <1>0, <1>3, PurgedType DEF Logout, Verify
  <2>2. issued' = issued
    BY <1>3 DEF Logout, Verify
  <2>3. QED
    BY <1>2, <2>1, <2>2 DEF EmptySlot
<1>4. CASE Tick
  BY <1>2, <1>4 DEF Tick
<1>5. CASE TokenRestart
  BY <1>2, <1>5 DEF TokenRestart, EmptySlot
<1>6. CASE UNCHANGED tokenVars
  BY <1>2, <1>6 DEF tokenVars
<1>7. QED
  BY <1>1, <1>3, <1>4, <1>5, <1>6 DEF TokenNext

LEMMA TokensStayUnique == TokenSpec => []UniqueTokens
<1>1. TokenInit => UniqueTokens
  BY DEF TokenInit, UniqueTokens, EmptySlot
<1>2. TokenTypeOK /\ UniqueTokens /\ [TokenNext]_tokenVars => UniqueTokens'
  BY UniqueNext
<1>3. QED
  BY <1>1, <1>2, TokenTypeCorrect, PTL DEF TokenSpec

-----------------------------------------------------------------------------
(* What a login displaces. *)

LEMMA DisplacedByStep ==
    ASSUME TokenTypeOK, [TokenNext]_tokenVars, issued' # issued,
           NEW i \in Slots, slots[i].used, ~Expired(slots[i]),
           slots'[i] # slots[i]
    PROVE  i = 0 /\ \A j \in Slots : slots[j].used /\ ~Expired(slots[j])
<1>1. PICK remember_me \in BOOLEAN, t \in Tokens : IssueToken(remember_me, t)
  BY DEF TokenNext, Logout, Verify, Tick, TokenRestart, tokenVars
<1> DEFINE free == {j \in Slots : ~Purged[j].used}
<1>2. slots' = [Purged EXCEPT ![TargetSlot(Purged)] = NewEntry(remember_me, t)]
  BY <1>1 DEF IssueToken, NewEntry
<1>3. Purged[i] = slots[i]
  BY DEF Purged
<1>4. i = TargetSlot(Purged) /\ i \notin free
  BY <1>2, <1>3, PurgedType
<1>5. free = {} /\ i = 0
  BY <1>4, TargetOfToken
<1>6. ASSUME NEW j \in Slots PROVE slots[j].used /\ ~Expired(slots[j])
  <2>1. Purged[j].used
    BY <1>5
  <2>2. QED
    BY <2>1 DEF Purged, EmptySlot
<1>7. QED
  BY <1>5, <1>6

(* A login displaces no valid session but that of slot 0, and that one     *)
(* only when every slot holds a valid session (auth_service.c:249-258).    *)
THEOREM LoginDisplacesSlotZero == TokenSpec => OnlySlotZeroDisplaced
<1>1. TokenTypeOK /\ [TokenNext]_tokenVars =>
        [issued' # issued =>
          \A i \in Slots :
             slots[i].used /\ ~Expired(slots[i]) /\ slots'[i] # slots[i]
                => /\ i = 0
                   /\ \A j \in Slots : slots[j].used /\ ~Expired(slots[j])
        ]_tokenVars
  BY DisplacedByStep
<1>2. QED
  BY <1>1, TokenTypeCorrect, PTL DEF TokenSpec, OnlySlotZeroDisplaced

-----------------------------------------------------------------------------
(* The table implements the abstract sessions. *)

Session(i) == [token |-> slots[i].token, expires |-> slots[i].expires_at]

LEMMA SessionsOfSlots ==
    ASSUME TokenTypeOK, UniqueTokens
    PROVE  /\ LiveSlots \subseteq Slots
           /\ AbstractSessions = {Session(i) : i \in LiveSlots}
           /\ \A i, j \in LiveSlots : Session(i) = Session(j) => i = j
           /\ \A i \in LiveSlots : Session(i).token \in Tokens
BY DEF TokenTypeOK, UniqueTokens, LiveSlots, AbstractSessions, Session

(* What the purge keeps are the live slots. *)
LEMMA PurgeKeepsLive ==
    ASSUME TokenTypeOK, NEW i \in Slots
    PROVE  /\ i \in LiveSlots <=> Purged[i].used
           /\ i \in LiveSlots => Purged[i] = slots[i]
           /\ Purged[i].used => Purged[i].expires_at > now
BY DEF TokenTypeOK, Entries, LiveSlots, Purged, Expired, EmptySlot

(* The abstract module's Cardinality is the one of the finite sets here. *)
LEMMA SameCardinality == ASSUME NEW S PROVE Abstract!Cardinality(S) = Cardinality(S)
BY DEF Abstract!Cardinality, Cardinality

(* There is room for a session exactly when a slot is not live. *)
LEMMA SessionCount ==
    ASSUME TokenTypeOK, UniqueTokens
    PROVE  /\ Cardinality(AbstractSessions) \in Nat
           /\ Cardinality(AbstractSessions) < MaxTokens <=> LiveSlots # Slots
<1>1. IsFiniteSet(Slots) /\ Cardinality(Slots) = MaxTokens
  BY FS_Interval, TokenTableAssumption DEF Slots
<1>2. /\ IsFiniteSet(LiveSlots) /\ Cardinality(LiveSlots) <= MaxTokens
      /\ Cardinality(LiveSlots) = MaxTokens => LiveSlots = Slots
  BY <1>1, FS_Subset DEF LiveSlots
<1> DEFINE f == [i \in LiveSlots |-> Session(i)]
<1>3. f \in Bijection(LiveSlots, AbstractSessions)
  BY SessionsOfSlots, Zenon DEF Bijection, Injection, Surjection, IsInjective
<1>4. Cardinality(AbstractSessions) = Cardinality(LiveSlots)
  BY <1>2, <1>3, FS_Bijection DEF ExistsBijection
<1>5. Cardinality(LiveSlots) \in Nat
  BY <1>2, FS_CardinalityType
<1>6. QED
  BY <1>1, <1>2, <1>4, <1>5, TokenTableAssumption

LEMMA InitImplements == TokenInit => Abstract!Init
BY DEF TokenInit, Abstract!Init, AbstractSessions, LiveSlots, EmptySlot

LEMMA IssueImplements ==
    ASSUME TokenTypeOK, UniqueTokens, NEW remember_me \in BOOLEAN,
           NEW t \in Tokens, IssueToken(remember_me, t)
    PROVE  Abstract!Open(t, Lifetime(remember_me))
<1> DEFINE free == {i \in Slots : ~Purged[i].used}
           new == [token |-> t, expires |-> now + Lifetime(remember_me)]
<1>0. PICK k : k = TargetSlot(Purged)
  OBVIOUS
<1>1. Lifetime(remember_me) \in Nat \ {0} /\ now \in Nat
  BY TokenTableAssumption DEF Lifetime, TokenTypeOK
<1>2. /\ slots' = [Purged EXCEPT ![k] = NewEntry(remember_me, t)]
      /\ now' = now /\ t \notin issued /\ issued' = issued \cup {t}
      /\ verdict' = verdict
  BY <1>0 DEF IssueToken, NewEntry
<1>3. /\ k \in Slots
      /\ k \in LiveSlots => LiveSlots = Slots
      /\ LiveSlots = Slots => k \in LiveSlots
  BY <1>0, TargetOfToken, PurgeKeepsLive, TokenTableAssumption DEF Slots, LiveSlots
<1>4. /\ slots'[k] = NewEntry(remember_me, t)
      /\ \A i \in Slots : i # k => slots'[i] = Purged[i]
  BY <1>2, <1>3, PurgedType
<1>5. LiveSlots' = LiveSlots \cup {k}
  <2>1. k \in LiveSlots'
    BY <1>1, <1>2, <1>3, <1>4 DEF LiveSlots, NewEntry
  <2>2. \A i \in Slots : i # k => (i \in LiveSlots' <=> i \in LiveSlots)
    BY <1>2, <1>4, PurgeKeepsLive DEF LiveSlots
  <2>3. QED
    BY <1>3, <2>1, <2>2 DEF LiveSlots
<1>6. AbstractSessions' = {Session(i) : i \in LiveSlots \ {k}} \cup {new}
  <2>1. AbstractSessions' = {Session(i)' : i \in LiveSlots'}
    BY DEF AbstractSessions, Session
  <2>2. Session(k)' = new
    BY <1>4 DEF Session, NewEntry
  <2>3. \A i \in LiveSlots \ {k} : Session(i)' = Session(i)
    BY <1>4, PurgeKeepsLive DEF Session, LiveSlots
  <2>4. QED
    BY <1>5, <2>1, <2>2, <2>3
<1> DEFINE displaced == IF LiveSlots = Slots THEN {Session(k)} ELSE {}
<1>7. displaced \in SUBSET AbstractSessions
  BY <1>3, SessionsOfSlots
<1>8. AbstractSessions \ displaced = {Session(i) : i \in LiveSlots \ {k}}
  BY <1>3, SessionsOfSlots
<1>9. IF Cardinality(AbstractSessions) < MaxTokens
      THEN displaced = {}
      ELSE \E s \in AbstractSessions : displaced = {s}
  BY <1>3, SessionCount, SessionsOfSlots
<1>10. QED
  BY <1>2, <1>6, <1>7, <1>8, <1>9, SameCardinality DEF Abstract!Open

LEMMA LogoutImplements ==
    ASSUME TokenTypeOK, UniqueTokens, NEW t \in Tokens \cup {NoToken}, Logout(t)
    PROVE  Abstract!Close(t)
<1>1. UNCHANGED <<now, issued, verdict>>
  BY DEF Logout
<1>2. \A i \in Slots : /\ i \in LiveSlots' => slots'[i] = slots[i]
                       /\ i \in LiveSlots' <=>
                             i \in LiveSlots /\ slots[i].token # t
  <2> DEFINE found == Holding(Purged, t)
  <2>1. \A i \in Slots : i \in found <=> i \in LiveSlots /\ slots[i].token = t
    BY PurgeKeepsLive DEF Holding
  <2>2. CASE t = NoToken
    <3>1. \A i \in LiveSlots : slots[i].token # NoToken
      BY SessionsOfSlots, TokenTableAssumption DEF Session
    <3>2. slots' = slots
      BY <2>2 DEF Logout
    <3>3. QED
      BY <1>1, <2>2, <3>1, <3>2 DEF LiveSlots
  <2>3. CASE t # NoToken /\ found = {}
    <3>1. slots' = Purged
      BY <2>3 DEF Logout
    <3>2. \A i \in Slots : i \in LiveSlots' <=> i \in LiveSlots
      BY <1>1, <3>1, PurgeKeepsLive DEF LiveSlots
    <3>3. QED
      BY <2>1, <2>3, <3>1, <3>2, PurgeKeepsLive
  <2>4. ASSUME t # NoToken, NEW k \in found
        PROVE  \A i \in Slots : /\ i \in LiveSlots' => slots'[i] = slots[i]
                                /\ i \in LiveSlots' <=>
                                      i \in LiveSlots /\ slots[i].token # t
    <3>1. k \in Slots /\ k \in LiveSlots /\ slots[k].token = t
      BY <2>1 DEF Holding
    <3>2. found \in SUBSET Slots /\ \A j \in found : j = k
      BY <2>1, <3>1 DEF Holding, LiveSlots, UniqueTokens
    <3>3. First(found) = k
      BY <3>1, <3>2, FirstSlot
    <3>4. slots' = [Purged EXCEPT ![k] = EmptySlot]
      BY <2>4, <3>3 DEF Logout
    <3>5. slots'[k] = EmptySlot /\ \A i \in Slots : i # k => slots'[i] = Purged[i]
      BY <3>1, <3>4, PurgedType
    <3>6. k \notin LiveSlots'
      BY <3>5 DEF LiveSlots, EmptySlot
    <3>7. \A i \in Slots : i # k => (i \in LiveSlots' <=> i \in LiveSlots)
      BY <1>1, <3>5, PurgeKeepsLive DEF LiveSlots
    <3>8. \A i \in LiveSlots : i # k => slots[i].token # t
      BY <2>1, <3>2 DEF LiveSlots
    <3>9. QED
      BY <3>1, <3>5, <3>6, <3>7, <3>8, PurgeKeepsLive
  <2>5. QED
    BY <2>2, <2>3, <2>4
<1>3. AbstractSessions' = {s \in AbstractSessions : s.token # t}
  <2>1. AbstractSessions' =
          {[token |-> slots'[i].token, expires |-> slots'[i].expires_at] :
              i \in LiveSlots'}
    BY DEF AbstractSessions
  <2>2. LiveSlots' = {i \in LiveSlots : slots[i].token # t}
    BY <1>2 DEF LiveSlots
  <2>3. \A i \in LiveSlots' : i \in Slots /\ slots'[i] = slots[i]
    BY <1>2 DEF LiveSlots
  <2>4. QED
    BY <2>1, <2>2, <2>3 DEF AbstractSessions
<1>4. QED
  BY <1>1, <1>3 DEF Abstract!Close

LEMMA VerifyImplements ==
    ASSUME TokenTypeOK, UniqueTokens, NEW t \in Tokens \cup {NoToken}, Verify(t)
    PROVE  Abstract!Check(t)
<1> DEFINE answer == t \in Abstract!LiveTokens
<1>1. Verifies(t) <=> answer
  <2>1. t \in Abstract!LiveTokens <=> \E i \in LiveSlots : slots[i].token = t
    <3>1. \A i \in LiveSlots : Session(i).token = slots[i].token
      BY DEF Session
    <3>2. Abstract!LiveTokens = {s.token : s \in {Session(i) : i \in LiveSlots}}
      BY SessionsOfSlots DEF Abstract!LiveTokens
    <3>3. QED
      BY <3>1, <3>2
  <2>2. Holding(Purged, t) # {} <=> \E i \in LiveSlots : slots[i].token = t
    BY PurgeKeepsLive DEF Holding, LiveSlots
  <2>3. \A i \in LiveSlots : slots[i].token # NoToken
    BY SessionsOfSlots, TokenTableAssumption DEF Session
  <2>4. QED
    BY <2>1, <2>2, <2>3 DEF Verifies
<1>2. LiveSlots' = LiveSlots /\ \A i \in LiveSlots : slots'[i] = slots[i]
  BY PurgeKeepsLive DEF Verify, LiveSlots, TokenTypeOK
<1>3. AbstractSessions' = AbstractSessions
  BY <1>2 DEF AbstractSessions
<1>4. Verifies(t) = answer
  BY <1>1 DEF Verifies
<1>5. /\ verdict' = [checked |-> TRUE, token |-> t, ok |-> answer]
      /\ UNCHANGED <<now, issued>>
  BY <1>4 DEF Verify
<1>6. QED
  BY <1>3, <1>5 DEF Abstract!Check

LEMMA TickImplements ==
    ASSUME TokenTypeOK, Tick
    PROVE  Abstract!Tick
<1>1. now' = now + 1 /\ UNCHANGED <<slots, issued, verdict>> /\ now \in Nat
  BY DEF Tick, TokenTypeOK
<1>2. \A i \in Slots : i \in LiveSlots' <=>
                          i \in LiveSlots /\ slots[i].expires_at > now'
  BY <1>1 DEF LiveSlots, TokenTypeOK, Entries
<1>3. AbstractSessions' = {s \in AbstractSessions : s.expires > now'}
  BY <1>1, <1>2 DEF AbstractSessions, LiveSlots
<1>4. QED
  BY <1>1, <1>3 DEF Abstract!Tick

LEMMA StepImplements ==
    ASSUME TokenTypeOK, UniqueTokens, [TokenNext]_tokenVars
    PROVE  [Abstract!Next]_(Abstract!absVars)
<1>1. ASSUME NEW remember_me \in BOOLEAN, NEW t \in Tokens,
             IssueToken(remember_me, t)
      PROVE  Abstract!Next
  <2>1. Lifetime(remember_me) \in {SessionLife, RememberLife}
    BY DEF Lifetime
  <2>2. QED
    BY <1>1, <2>1, IssueImplements DEF Abstract!Next
<1>2. ASSUME NEW t \in Tokens \cup {NoToken}, Logout(t) \/ Verify(t)
      PROVE  Abstract!Next
  BY <1>2, LogoutImplements, VerifyImplements DEF Abstract!Next
<1>3. CASE Tick
  BY <1>3, TickImplements DEF Abstract!Next
<1>4. CASE TokenRestart
  BY <1>4 DEF TokenRestart, Abstract!Next, Abstract!Restart,
     AbstractSessions, LiveSlots, EmptySlot
<1>5. CASE UNCHANGED tokenVars
  BY <1>5 DEF tokenVars, Abstract!absVars, AbstractSessions, LiveSlots
<1>6. QED
  BY <1>1, <1>2, <1>3, <1>4, <1>5 DEF TokenNext

(* A login, logout, check or restart of the token table, purging included, *)
(* does to the sessions what the abstract specification says.              *)
THEOREM TableImplementsSessions == TokenSpec => ImplementsSessions
BY InitImplements, StepImplements, TokenTypeCorrect, TokensStayUnique, PTL
DEF TokenSpec, ImplementsSessions, Abstract!Spec

=============================================================================
