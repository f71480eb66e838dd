--------------------------- MODULE EapSafetyProofs ---------------------------
(***************************************************************************)
(* Safety of the EAP exchange, for flights, input buffers and numbers of   *)
(* losses, link failures and repetitions of any size.                      *)
(*                                                                         *)
(* The proof that ExchangeInv is inductive goes in the order of its parts. *)
(* Line says which frames can be under way together; it is kept because    *)
(* each step takes an item off the line, puts the next one at its end, or  *)
(* turns a packet into its response where it stands (the lemmas Line... on *)
(* lines alone, Way... on the place a frame has in them).  From it follows *)
(* that a TLS Start or a data request is alone with its answer, so the     *)
(* authenticator and the engine mean the same handshake; from that, that   *)
(* the engine reads only bytes of its handshake, how far it is in each     *)
(* state of the supplicant, and that the last flight is acknowledged, and  *)
(* Success sent, only when it has eaten both flights.                      *)
(***************************************************************************)
EXTENDS EapWay, EapProofs

-----------------------------------------------------------------------------
(* Identifiers. *)

(* An identifier comes round only after Ids steps. *)
LEMMA Successors ==
    ASSUME EnoughIds, NEW x \in 0..(Ids - 1)
    PROVE  /\ Succ(x) \in 0..(Ids - 1)
           /\ Succ(x) # x
           /\ Succ(Succ(x)) # x
           /\ Succ(Succ(Succ(x))) # x
<1>0. Ids \in Nat /\ Ids >= 4
  BY SupplicantAssumption DEF EnoughIds
<1>1. ASSUME NEW y \in 0..(Ids - 1)
      PROVE  Succ(y) = IF y = Ids - 1 THEN 0 ELSE y + 1
  <2>1. CASE y = Ids - 1
    BY <1>0, <2>1 DEF Succ
  <2>2. CASE y # Ids - 1
    BY <1>0, <2>2 DEF Succ
  <2> QED  BY <2>1, <2>2
<1>2. Succ(x) \in 0..(Ids - 1)
  BY <1>0, <1>1
<1>3. Succ(Succ(x)) \in 0..(Ids - 1)
  BY <1>0, <1>1, <1>2
<1> HIDE DEF Succ
<1> QED  BY <1>0, <1>1, <1>2, <1>3

-----------------------------------------------------------------------------
(* How a line changes. *)

Phases == {"None", "Identity", "Start", "Data"}

(* v is a line of n items. *)
ItemsOf(v, n) == n \in Nat /\ \A i \in 1..n : v[i] \in Items

(* w is v without its item at k. *)
Removed(v, n, w, k) ==
    \A i \in 1..(n - 1) : w[i] = IF i < k THEN v[i] ELSE v[i + 1]

(* w is v with its first item taken and x put behind the last. *)
Passed(v, n, w, x) ==
    /\ \A i \in 1..(n - 1) : w[i] = v[i + 1]
    /\ w[n] = x

LEMMA LineRemove ==
    ASSUME NEW v, NEW n, NEW w, NEW k \in 1..n, NEW ph \in Phases, NEW e,
           ItemsOf(v, n), Line(v, n, ph, e), Removed(v, n, w, k)
    PROVE  Line(w, n - 1, ph, e)
<1>1. n \in {1, 2, 3}
  BY DEF Line, ItemsOf
<1>2. CASE n = 1
  BY <1>2 DEF Line, Apart, IdleLine, IdentityLine, StartLine, DataLine
<1>3. CASE n = 2
  BY <1>3 DEF Line, Apart, IdleLine, IdentityLine, StartLine, DataLine, Removed
<1>4. CASE n = 3
  BY <1>4 DEF Line, Apart, IdleLine, IdentityLine, StartLine, DataLine, Removed
<1> QED  BY <1>1, <1>2, <1>3, <1>4

(* The authenticator answers an EAPOL-Start. *)
LEMMA LineHello ==
    ASSUME EnoughIds, NEW v, NEW n, NEW w, NEW ph \in Phases,
           NEW e \in 0..(Ids - 1),
           ItemsOf(v, n), Line(v, n, ph, e), n >= 1, v[1].topic = "hello",
           Passed(v, n, w, [topic |-> "identity", id |-> Succ(e)])
    PROVE  Line(w, n, "Identity", Succ(e))
<1>1. n \in {1, 2, 3}
  BY DEF Line, ItemsOf
<1>2. /\ Succ(e) \in 0..(Ids - 1) /\ Succ(e) # e
      /\ \A i \in 1..n : /\ Succ(v[i].id) # v[i].id
                         /\ Succ(Succ(v[i].id)) # v[i].id
                         /\ Succ(Succ(Succ(v[i].id))) # v[i].id
  BY Successors DEF ItemsOf, Items
<1>3. CASE n = 1
  BY <1>2, <1>3 DEF Line, Apart, IdentityLine, Passed
<1>4. CASE n = 2
  BY <1>2, <1>4 DEF Phases, Line, Apart, IdleLine, IdentityLine, StartLine, DataLine, Passed
<1>5. CASE n = 3
  BY <1>2, <1>5 DEF Phases, Line, Apart, IdleLine, IdentityLine, StartLine, DataLine, Passed
<1> QED  BY <1>1, <1>3, <1>4, <1>5

(* It takes the identity, the ClientHello or the answer to data. *)
LEMMA LineFollow ==
    ASSUME EnoughIds, NEW v, NEW n, NEW w, NEW e \in 0..(Ids - 1),
           NEW ph, NEW next, NEW t,
           \/ ph = "Identity" /\ v[1].topic = "identity" /\ next = "Start" /\ t = "start"
           \/ ph = "Start" /\ v[1].topic = "start" /\ next = "Data" /\ t = "data"
           \/ ph = "Data" /\ v[1].topic = "data" /\ next = "Data" /\ t = "data",
           ItemsOf(v, n), Line(v, n, ph, e), n >= 1, v[1].id = e,
           Passed(v, n, w, [topic |-> t, id |-> Succ(e)])
    PROVE  Line(w, n, next, Succ(e))
<1>1. n \in {1, 2, 3}
  BY DEF Line, ItemsOf
<1>2. /\ Succ(e) \in 0..(Ids - 1) /\ Succ(e) # e
      /\ \A i \in 1..n : /\ Succ(v[i].id) # v[i].id
                         /\ Succ(Succ(v[i].id)) # v[i].id
                         /\ Succ(Succ(Succ(v[i].id))) # v[i].id
  BY Successors DEF ItemsOf, Items
<1>3. CASE n = 1
  BY <1>2, <1>3 DEF Line, Apart, StartLine, DataLine, Passed
<1>4. CASE n = 2
  BY <1>2, <1>4 DEF Line, Apart, IdentityLine, StartLine, DataLine, Passed
<1>5. CASE n = 3
  BY <1>2, <1>5 DEF Line, Apart, IdentityLine, StartLine, DataLine, Passed
<1> QED  BY <1>1, <1>3, <1>4, <1>5

(* It ends the session. *)
LEMMA LineFinish ==
    ASSUME EnoughIds, NEW v, NEW n, NEW w, NEW ph \in Phases,
           NEW e \in 0..(Ids - 1),
           ItemsOf(v, n), Line(v, n, ph, e), n >= 1,
           ph # "None", v[1].id = e, v[1].topic \notin {"hello", "finish"},
           Passed(v, n, w, [topic |-> "finish", id |-> Succ(e)])
    PROVE  Line(w, n, "None", Succ(e))
<1>1. n \in {1, 2, 3}
  BY DEF Line, ItemsOf
<1>2. /\ Succ(e) \in 0..(Ids - 1) /\ Succ(e) # e
      /\ \A i \in 1..n : v[i] \in Items
  BY Successors DEF ItemsOf
<1>3. CASE n = 1
  BY <1>2, <1>3 DEF Line, Apart, IdleLine, Passed
<1>4. CASE n = 2
  BY <1>2, <1>4 DEF Phases, Line, Apart, IdleLine, IdentityLine, StartLine, DataLine, Passed
<1>5. CASE n = 3
  <2>1. CASE ph = "Identity"
    BY <1>2, <1>5, <2>1 DEF Line, Apart, IdleLine, IdentityLine, Passed
  <2>2. CASE ph = "Start"
    <3>1. v[1].topic = "start"
      BY <1>2, <1>5, <2>2 DEF Line, StartLine, Items, Topics
    <3> QED  BY <1>2, <1>5, <2>2, <3>1 DEF Line, Apart, IdleLine, StartLine, Passed
  <2>3. CASE ph = "Data"
    BY <1>2, <1>5, <2>3 DEF Line, Apart, IdleLine, DataLine, Passed
  <2> QED  BY <2>1, <2>2, <2>3 DEF Phases
<1> QED  BY <1>1, <1>3, <1>4, <1>5

(* w is v with x put behind it. *)
Added(v, n, w, x) ==
    /\ \A i \in 1..n : w[i] = v[i]
    /\ w[n + 1] = x

(* It starts a session by itself. *)
LEMMA LineInitiate ==
    ASSUME EnoughIds, NEW v, NEW n, NEW w, NEW e \in 0..(Ids - 1),
           ItemsOf(v, n), Line(v, n, "None", e),
           \A i \in 1..n : v[i].topic # "finish",
           Added(v, n, w, [topic |-> "identity", id |-> Succ(e)])
    PROVE  Line(w, n + 1, "Identity", Succ(e))
<1>1. n \in {0, 1, 2}
  BY DEF Line, IdleLine, ItemsOf
<1>2. Succ(e) \in 0..(Ids - 1) /\ Succ(e) # e
      /\ \A i \in 1..n : Succ(v[i].id) # v[i].id /\ Succ(Succ(v[i].id)) # v[i].id
  BY Successors DEF ItemsOf, Items
<1>3. CASE n = 0
  BY <1>2, <1>3 DEF Line, Apart, IdentityLine, Added
<1>4. CASE n = 1
  BY <1>2, <1>4 DEF Line, Apart, IdleLine, IdentityLine, Added
<1>5. CASE n = 2
  BY <1>2, <1>5 DEF Line, Apart, IdleLine, IdentityLine, Added
<1> QED  BY <1>1, <1>3, <1>4, <1>5

(* It repeats its request, or gives up, when at most EAPOL-Start is under  *)
(* way.                                                                    *)
LEMMA LineAgain ==
    ASSUME NEW v, NEW n, NEW w, NEW e, NEW ph, NEW x, NEW t,
           n = 0 \/ (n = 1 /\ v[1].topic = "hello"),
           Added(v, n, w, x), x.topic = t,
           \/ ph = "Identity" /\ t = "identity" /\ x.id = e
           \/ ph = "Start" /\ t = "start" /\ x.id = e
           \/ ph = "Data" /\ t = "data" /\ x.id = e
           \/ ph = "None" /\ t = "finish"
    PROVE  Line(w, n + 1, ph, e)
<1>1. CASE n = 0
  BY <1>1 DEF Line, Apart, IdleLine, IdentityLine, StartLine, DataLine, Added
<1>2. CASE n = 1
  BY <1>2 DEF Line, Apart, IdleLine, IdentityLine, StartLine, DataLine, Added
<1> QED  BY <1>1, <1>2

(* w is v with its item at k before the EAPOL-Start it stood behind. *)
Overtaken(v, n, w, k) ==
    /\ w[k] = v[k + 1]
    /\ w[k + 1].topic = "hello"
    /\ \A i \in (1..n) \ {k, k + 1} : w[i] = v[i]

(* The answer to a packet overtakes the EAPOL-Start of the main task. *)
LEMMA LineOvertake ==
    ASSUME NEW v, NEW n, NEW w, NEW k \in 1..(n - 1), NEW ph \in Phases, NEW e,
           ItemsOf(v, n), Line(v, n, ph, e), Overtaken(v, n, w, k),
           v[k].topic = "hello", v[k + 1].topic \notin {"hello", "finish"}
    PROVE  Line(w, n, ph, e)
<1>1. n \in {2, 3}
  BY DEF Line, ItemsOf
<1>2. CASE n = 2
  BY <1>2 DEF Phases, Line, Apart, IdleLine, IdentityLine, StartLine, DataLine, Overtaken
<1>3. CASE n = 3
  BY <1>3 DEF Phases, Line, Apart, IdleLine, IdentityLine, StartLine, DataLine, Overtaken
<1> QED  BY <1>1, <1>2, <1>3

(* w is v with EAPOL-Start in place of its item at k. *)
Replaced(v, n, w, k) ==
    /\ w[k].topic = "hello"
    /\ \A i \in (1..n) \ {k} : w[i] = v[i]

(* The main task builds its EAPOL-Start over a response. *)
LEMMA LineReplace ==
    ASSUME NEW v, NEW n, NEW w, NEW k \in 1..(n - 1), NEW ph \in Phases, NEW e,
           ItemsOf(v, n), Line(v, n, ph, e), Replaced(v, n, w, k),
           v[k].topic # "finish", v[k + 1].topic = "hello"
    PROVE  Line(w, n, ph, e)
<1>1. n \in {2, 3}
  BY DEF Line, ItemsOf
<1>2. CASE n = 2
  BY <1>2 DEF Phases, Line, Apart, IdleLine, IdentityLine, StartLine, DataLine, Replaced
<1>3. CASE n = 3
  BY <1>3 DEF Phases, Line, Apart, IdleLine, IdentityLine, StartLine, DataLine, Replaced
<1> QED  BY <1>1, <1>2, <1>3

(* What a session leaves behind when it ends. *)
LEMMA LineRest ==
    ASSUME NEW v, NEW n \in {0, 1, 2}, NEW e, n = 2 => v[2].topic = "hello"
    PROVE  Line(v, n, "None", e)
BY DEF Line, Apart, IdleLine

-----------------------------------------------------------------------------
(* How the steps change the way. *)

LEMMA FrameItems ==
    /\ \A f \in Packets : /\ Item(f) \in Items
                         /\ f.kind \in {"Identity", "Start", "Data", "Success", "Failure"}
    /\ \A f \in Replies : Item(f) \in Items /\ Topic(f) # "finish"
    /\ EapolStart \in Replies
    /\ Item(EapolStart) \in Items /\ Topic(EapolStart) = "hello"
<1>1. 0 \in 0..(Ids - 1) /\ 0 \in 0..(Epochs - 1)
  BY Numbers
<1> QED  BY <1>1 DEF Packets, Replies, EapolStart, Item, Items, Topic, Topics

LEMMA WayTypes ==
    ASSUME EapTypeOK
    PROVE  /\ SentEnd \in Nat /\ BuiltEnd \in Nat /\ OwnEnd \in Nat
           /\ SentEnd <= BuiltEnd /\ BuiltEnd <= OwnEnd /\ OwnEnd <= WayLen
           /\ ItemsOf(Way, WayLen)
           /\ \A i \in 1..WayLen : Way[i] = Item(Place(i))
           /\ \A i \in 1..OwnEnd : Way[i].topic # "finish"
<1>1. /\ toServer \in Seq(Replies) /\ toDevice \in Seq(Packets)
      /\ Len(toServer) \in Nat /\ Len(toDevice) \in Nat
      /\ frame \in Replies \cup {Nil} /\ (rx = "built" => frame \in Replies)
  BY DEF EapTypeOK, SupplicantTypeOK
<1>2. /\ SentEnd \in Nat /\ BuiltEnd \in Nat /\ OwnEnd \in Nat /\ WayLen \in Nat
      /\ SentEnd <= BuiltEnd /\ BuiltEnd <= OwnEnd /\ OwnEnd <= WayLen
      /\ WayLen = OwnEnd + Len(toDevice)
      /\ SentEnd < BuiltEnd => rx = "built"
  <2>1. /\ SentEnd \in Nat /\ BuiltEnd \in {SentEnd, SentEnd + 1}
        /\ SentEnd < BuiltEnd => rx = "built"
    BY <1>1 DEF SentEnd, BuiltEnd
  <2>2. OwnEnd \in {BuiltEnd, BuiltEnd + 1}
    BY <2>1 DEF OwnEnd
  <2> QED  BY <1>1, <2>1, <2>2 DEF WayLen
<1>3. ASSUME NEW i \in 1..OwnEnd PROVE Place(i) \in Replies
  BY <1>1, <1>2, FrameItems DEF Place, SentEnd
<1>4. ASSUME NEW i \in 1..WayLen, i > OwnEnd PROVE Place(i) \in Packets
  <2>1. ~(i <= SentEnd) /\ ~(i <= BuiltEnd) /\ ~(i <= OwnEnd)
        /\ i - OwnEnd \in 1..Len(toDevice)
    BY <1>1, <1>2, <1>4
  <2> QED  BY <1>1, <2>1 DEF Place
<1>5. \A i \in 1..WayLen : Way[i] = Item(Place(i))
  BY DEF Way
<1>6. ItemsOf(Way, WayLen)
  BY <1>2, <1>3, <1>4, <1>5, FrameItems DEF ItemsOf
<1>7. ASSUME NEW i \in 1..OwnEnd PROVE Way[i].topic # "finish"
  <2>1. Way[i] = Item(Place(i)) /\ Place(i) \in Replies
    BY <1>2, <1>3, <1>5
  <2>2. Topic(Place(i)) # "finish"
    BY <2>1, FrameItems
  <2> HIDE DEF Topic, Place
  <2> QED  BY <2>1, <2>2 DEF Item
<1> QED  BY <1>2, <1>5, <1>6, <1>7

(* The authenticator takes a response, and asks for more or not. *)
LEMMA WayTaken ==
    ASSUME EapTypeOK, toServer # <<>>, toServer' = Tail(toServer),
           UNCHANGED <<main, rx, frame>>
    PROVE  /\ WayLen >= 1 /\ Way[1] = Item(Head(toServer))
           /\ toDevice' = toDevice =>
                 WayLen' = WayLen - 1 /\ Removed(Way, WayLen, Way', 1)
           /\ \A p \in Packets : toDevice' = Append(toDevice, p) =>
                 WayLen' = WayLen /\ Passed(Way, WayLen, Way', Item(p))
<1>1. /\ toServer \in Seq(Replies) /\ toDevice \in Seq(Packets)
      /\ Len(toServer) \in Nat /\ Len(toServer) >= 1 /\ Len(toDevice) \in Nat
      /\ Len(toServer') = Len(toServer) - 1
      /\ \A i \in 1..(Len(toServer) - 1) : toServer'[i] = toServer[i + 1]
  BY DEF EapTypeOK, SupplicantTypeOK
<1>2. /\ SentEnd' = SentEnd - 1 /\ BuiltEnd' = BuiltEnd - 1 /\ OwnEnd' = OwnEnd - 1
      /\ Pending' = Pending
  BY <1>1 DEF SentEnd, BuiltEnd, OwnEnd, Pending
<1>3. /\ SentEnd \in Nat /\ BuiltEnd \in Nat /\ OwnEnd \in Nat
      /\ SentEnd <= BuiltEnd /\ BuiltEnd <= OwnEnd /\ OwnEnd <= WayLen
      /\ SentEnd >= 1 /\ WayLen \in Nat
      /\ \A i \in 1..WayLen : Way[i] = Item(Place(i))
  BY <1>1, WayTypes DEF SentEnd, ItemsOf
<1>4. WayLen >= 1 /\ Way[1] = Item(Head(toServer))
  BY <1>1, <1>3 DEF Place
<1>5. ASSUME toDevice' = toDevice
      PROVE  WayLen' = WayLen - 1 /\ Removed(Way, WayLen, Way', 1)
  <2>1. WayLen' = WayLen - 1
    BY <1>1, <1>2, <1>3, <1>5 DEF WayLen
  <2>2. ASSUME NEW i \in 1..(WayLen - 1) PROVE Way'[i] = Way[i + 1]
    <3>1. Place(i)' = Place(i + 1)
      BY <1>1, <1>2, <1>3, <1>5 DEF Place, SentEnd
    <3>2. Way'[i] = Item(Place(i)')
      BY <2>1 DEF Way, Item, Topic
    <3> QED  BY <1>3, <3>1, <3>2
  <2> QED  BY <2>1, <2>2 DEF Removed
<1>6. ASSUME NEW p \in Packets, toDevice' = Append(toDevice, p)
      PROVE  WayLen' = WayLen /\ Passed(Way, WayLen, Way', Item(p))
  <2>0. /\ Len(toDevice') = Len(toDevice) + 1 /\ toDevice'[Len(toDevice) + 1] = p
        /\ \A i \in 1..Len(toDevice) : toDevice'[i] = toDevice[i]
    BY <1>1, <1>6
  <2>1. WayLen' = WayLen /\ WayLen = OwnEnd + Len(toDevice)
    <3>1. WayLen = OwnEnd + Len(toDevice) /\ WayLen' = OwnEnd' + Len(toDevice')
      BY DEF WayLen
    <3>2. /\ OwnEnd \in Nat /\ Len(toDevice) \in Nat
          /\ OwnEnd' = OwnEnd - 1 /\ Len(toDevice') = Len(toDevice) + 1
      BY <1>1, <1>2, <1>3, <2>0
    <3> QED  BY <3>1, <3>2
  <2>2. ASSUME NEW i \in 1..WayLen PROVE Way'[i] = Item(Place(i)')
    BY <2>1 DEF Way, Item, Topic
  <2>3. ASSUME NEW i \in 1..(WayLen - 1) PROVE Way'[i] = Way[i + 1]
    <3>1. Place(i)' = Place(i + 1)
      BY <1>1, <1>2, <1>3, <2>0, <2>1 DEF Place, SentEnd
    <3> QED  BY <1>3, <2>2, <3>1
  <2>4. Place(WayLen)' = p
    BY <1>1, <1>2, <1>3, <2>0, <2>1 DEF Place
  <2> QED  BY <1>3, <1>4, <2>1, <2>2, <2>3, <2>4 DEF Passed
<1> QED  BY <1>4, <1>5, <1>6

(* A packet is put behind everything under way. *)
LEMMA WayAdded ==
    ASSUME EapTypeOK, NEW p \in Packets, toDevice' = Append(toDevice, p),
           UNCHANGED <<toServer, main, rx, frame>>
    PROVE  WayLen' = WayLen + 1 /\ Added(Way, WayLen, Way', Item(p))
<1>1. /\ toDevice \in Seq(Packets) /\ Len(toDevice) \in Nat
      /\ Len(toDevice') = Len(toDevice) + 1 /\ toDevice'[Len(toDevice) + 1] = p
      /\ \A i \in 1..Len(toDevice) : toDevice'[i] = toDevice[i]
  BY DEF EapTypeOK
<1>2. SentEnd' = SentEnd /\ BuiltEnd' = BuiltEnd /\ OwnEnd' = OwnEnd
  BY DEF SentEnd, BuiltEnd, OwnEnd, Pending
<1>3. /\ SentEnd \in Nat /\ BuiltEnd \in Nat /\ OwnEnd \in Nat /\ WayLen \in Nat
      /\ SentEnd <= BuiltEnd /\ BuiltEnd <= OwnEnd
      /\ \A i \in 1..WayLen : Way[i] = Item(Place(i))
  BY WayTypes DEF ItemsOf
<1>4. WayLen' = WayLen + 1 /\ WayLen = OwnEnd + Len(toDevice)
  BY <1>1, <1>2, <1>3 DEF WayLen
<1>5. ASSUME NEW i \in 1..(WayLen + 1) PROVE Way'[i] = Item(Place(i)')
  BY <1>4 DEF Way, Item, Topic
<1>6. ASSUME NEW i \in 1..WayLen PROVE Place(i)' = Place(i)
  BY <1>1, <1>2, <1>3, <1>4 DEF Place
<1>7. ASSUME NEW i \in 1..(WayLen + 1), i = WayLen + 1 PROVE Place(i)' = p
  <2>1. ~(i <= SentEnd) /\ ~(i <= BuiltEnd) /\ ~(i <= OwnEnd)
        /\ i - OwnEnd = Len(toDevice) + 1
    BY <1>1, <1>3, <1>4, <1>7
  <2> QED  BY <1>1, <1>2, <2>1 DEF Place
<1>8. WayLen + 1 \in 1..(WayLen + 1)
  BY <1>3
<1> QED  BY <1>3, <1>4, <1>5, <1>6, <1>7, <1>8 DEF Added

(* The device receives a packet and is silent, or the packet is lost. *)
LEMMA WayDropped ==
    ASSUME EapTypeOK, toDevice # <<>>, toDevice' = Tail(toDevice),
           UNCHANGED <<toServer, main, rx, frame>>
    PROVE  /\ WayLen' = WayLen - 1 /\ OwnEnd + 1 \in 1..WayLen
           /\ Removed(Way, WayLen, Way', OwnEnd + 1)
<1>1. /\ toDevice \in Seq(Packets) /\ Len(toDevice) \in Nat /\ Len(toDevice) >= 1
      /\ Len(toDevice') = Len(toDevice) - 1
      /\ \A i \in 1..(Len(toDevice) - 1) : toDevice'[i] = toDevice[i + 1]
  BY DEF EapTypeOK
<1>2. SentEnd' = SentEnd /\ BuiltEnd' = BuiltEnd /\ OwnEnd' = OwnEnd
  BY DEF SentEnd, BuiltEnd, OwnEnd, Pending
<1>3. /\ SentEnd \in Nat /\ BuiltEnd \in Nat /\ OwnEnd \in Nat /\ WayLen \in Nat
      /\ SentEnd <= BuiltEnd /\ BuiltEnd <= OwnEnd
      /\ \A i \in 1..WayLen : Way[i] = Item(Place(i))
  BY WayTypes DEF ItemsOf
<1>4. WayLen' = WayLen - 1 /\ WayLen = OwnEnd + Len(toDevice)
  BY <1>1, <1>2, <1>3 DEF WayLen
<1>5. ASSUME NEW i \in 1..(WayLen - 1)
      PROVE  Way'[i] = IF i < OwnEnd + 1 THEN Way[i] ELSE Way[i + 1]
  <2>1. Way'[i] = Item(Place(i)')
    BY <1>4 DEF Way, Item, Topic
  <2>2. CASE i <= OwnEnd
    <3>1. Place(i)' = Place(i)
      BY <1>2, <1>3, <2>2 DEF Place
    <3> QED  BY <1>3, <2>1, <2>2, <3>1
  <2>3. CASE ~(i <= OwnEnd)
    <3>1. Place(i)' = Place(i + 1)
      BY <1>1, <1>2, <1>3, <1>4, <2>3 DEF Place
    <3> QED  BY <1>3, <2>1, <2>3, <3>1
  <2> QED  BY <2>2, <2>3
<1> QED  BY <1>1, <1>3, <1>4, <1>5 DEF Removed

(* The first frame on its way to the authenticator is lost. *)
LEMMA WayLost ==
    ASSUME EapTypeOK, toServer # <<>>, toServer' = Tail(toServer),
           UNCHANGED <<main, rx, frame, toDevice>>
    PROVE  WayLen' = WayLen - 1 /\ 1 \in 1..WayLen /\ Removed(Way, WayLen, Way', 1)
<1>1. WayLen \in Nat
  BY WayTypes DEF ItemsOf
<1> QED  BY <1>1, WayTaken

(* w is v. *)
Same(v, n, w) == \A i \in 1..n : w[i] = v[i]

(* The response to the first packet takes its place, unless the main task  *)
(* has still to send EAPOL-Start: the response overtakes one that is not   *)
(* built, and overwrites one that is.                                      *)
LEMMA WayAnswered ==
    ASSUME EapTypeOK, toDevice # <<>>, toDevice' = Tail(toDevice),
           UNCHANGED <<toServer, main>>, rx = "idle", rx' = "built",
           Item(frame') = Item(Head(toDevice)), frame'.kind # "EapolStart"
    PROVE  /\ ~Pending => WayLen' = WayLen /\ Same(Way, WayLen, Way')
           /\ main \in {"booting", "initialised", "waiting"} =>
                 /\ WayLen' = WayLen /\ SentEnd + 1 \in 1..(WayLen - 1)
                 /\ Overtaken(Way, WayLen, Way', SentEnd + 1)
                 /\ Way[SentEnd + 1].topic = "hello"
                 /\ Way[SentEnd + 2] = Item(Head(toDevice))
           /\ main = "built" /\ frame = EapolStart =>
                 /\ WayLen' = WayLen - 1 /\ SentEnd + 1 \in 1..WayLen
                 /\ Removed(Way, WayLen, Way', SentEnd + 1)
<1>1. /\ toDevice \in Seq(Packets) /\ Len(toDevice) \in Nat /\ Len(toDevice) >= 1
      /\ Len(toDevice') = Len(toDevice) - 1 /\ Head(toDevice) = toDevice[1]
      /\ \A i \in 1..(Len(toDevice) - 1) : toDevice'[i] = toDevice[i + 1]
  BY DEF EapTypeOK
<1>2. /\ SentEnd' = SentEnd /\ BuiltEnd = SentEnd /\ BuiltEnd' = SentEnd + 1
      /\ SentEnd \in Nat
  BY WayTypes DEF SentEnd, BuiltEnd
<1>3. /\ WayLen = OwnEnd + Len(toDevice) /\ WayLen' = OwnEnd' + Len(toDevice)'
      /\ OwnEnd \in Nat
      /\ \A i \in 1..WayLen : Way[i] = Item(Place(i))
  BY WayTypes DEF WayLen
<1>4. ASSUME NEW i \in 1..WayLen' PROVE Way'[i] = Item(Place(i)')
  BY <1>4 DEF Way, Item, Topic
<1>5. frame' # EapolStart
  BY DEF EapolStart
<1>6. ASSUME ~Pending PROVE WayLen' = WayLen /\ Same(Way, WayLen, Way')
  <2>1. ~Pending'
    BY <1>5, <1>6 DEF Pending
  <2>2. OwnEnd = SentEnd /\ OwnEnd' = SentEnd + 1
    BY <1>2, <1>6, <2>1 DEF OwnEnd
  <2>3. WayLen' = WayLen
    BY <1>1, <1>2, <1>3, <2>2
  <2>4. ASSUME NEW i \in 1..WayLen PROVE Way'[i] = Way[i]
    <3>1. CASE i = SentEnd + 1
      <4>1. Place(i)' = frame' /\ Place(i) = Head(toDevice)
        BY <1>1, <1>2, <2>2, <3>1 DEF Place
      <4> QED  BY <1>3, <1>4, <2>3, <4>1
    <3>2. CASE i # SentEnd + 1
      <4>1. Place(i)' = Place(i)
        BY <1>1, <1>2, <1>3, <2>2, <3>2 DEF Place
      <4> QED  BY <1>3, <1>4, <2>3, <4>1
    <3> QED  BY <3>1, <3>2
  <2> QED  BY <2>3, <2>4 DEF Same
<1>7. ASSUME main \in {"booting", "initialised", "waiting"}
      PROVE  /\ WayLen' = WayLen /\ SentEnd + 1 \in 1..(WayLen - 1)
             /\ Overtaken(Way, WayLen, Way', SentEnd + 1)
             /\ Way[SentEnd + 1].topic = "hello"
             /\ Way[SentEnd + 2] = Item(Head(toDevice))
  <2>1. Pending /\ Pending'
    BY <1>7 DEF Pending
  <2>2. OwnEnd = SentEnd + 1 /\ OwnEnd' = SentEnd + 2
    BY <1>2, <2>1 DEF OwnEnd
  <2>3. WayLen' = WayLen /\ SentEnd + 1 \in 1..(WayLen - 1)
    BY <1>1, <1>2, <1>3, <2>2
  <2>4. /\ Place(SentEnd + 1) = EapolStart /\ Place(SentEnd + 2) = Head(toDevice)
        /\ Place(SentEnd + 1)' = frame' /\ Place(SentEnd + 2)' = EapolStart
    BY <1>1, <1>2, <2>2 DEF Place
  <2>5. /\ Way[SentEnd + 1] = Item(EapolStart)
        /\ Way[SentEnd + 2] = Item(Head(toDevice))
        /\ Way'[SentEnd + 1] = Item(Head(toDevice))
        /\ Way'[SentEnd + 2] = Item(EapolStart)
    BY <1>2, <1>3, <1>4, <2>3, <2>4
  <2>6. ASSUME NEW i \in (1..WayLen) \ {SentEnd + 1, SentEnd + 2}
        PROVE  Way'[i] = Way[i]
    <3>1. Place(i)' = Place(i)
      BY <1>1, <1>2, <1>3, <2>2 DEF Place
    <3> QED  BY <1>3, <1>4, <2>3, <3>1
  <2>7. Item(EapolStart).topic = "hello"
    BY FrameItems DEF Item
  <2> QED  BY <1>2, <2>3, <2>5, <2>6, <2>7 DEF Overtaken
<1>8. ASSUME main = "built", frame = EapolStart
      PROVE  /\ WayLen' = WayLen - 1 /\ SentEnd + 1 \in 1..WayLen
             /\ Removed(Way, WayLen, Way', SentEnd + 1)
  <2>1. Pending /\ ~Pending'
    BY <1>5, <1>8 DEF Pending
  <2>2. OwnEnd = SentEnd + 1 /\ OwnEnd' = SentEnd + 1
    BY <1>2, <2>1 DEF OwnEnd
  <2>3. WayLen' = WayLen - 1 /\ SentEnd + 1 \in 1..WayLen
    BY <1>1, <1>2, <1>3, <2>2
  <2>4. ASSUME NEW i \in 1..(WayLen - 1)
        PROVE  Way'[i] = IF i < SentEnd + 1 THEN Way[i] ELSE Way[i + 1]
    <3>1. CASE i <= SentEnd
      <4>1. Place(i)' = Place(i)
        BY <1>2, <3>1 DEF Place
      <4> QED  BY <1>2, <1>3, <1>4, <2>3, <3>1, <4>1
    <3>2. CASE i = SentEnd + 1
      <4>1. Place(i)' = frame' /\ Place(i + 1) = Head(toDevice)
        BY <1>1, <1>2, <2>2, <3>2 DEF Place
      <4> QED  BY <1>2, <1>3, <1>4, <2>3, <3>2, <4>1
    <3>3. CASE i > SentEnd + 1
      <4>1. Place(i)' = Place(i + 1)
        BY <1>1, <1>2, <1>3, <2>2, <2>3, <3>3 DEF Place
      <4> QED  BY <1>2, <1>3, <1>4, <2>3, <3>3, <4>1
    <3> QED  BY <1>2, <3>1, <3>2, <3>3
  <2> QED  BY <2>3, <2>4 DEF Removed
<1> QED  BY <1>6, <1>7, <1>8

(* Nothing is built, sent or received. *)
LEMMA WaySame ==
    ASSUME EapTypeOK, UNCHANGED <<toServer, rx, frame, toDevice>>,
           Pending' = Pending
    PROVE  WayLen' = WayLen /\ Same(Way, WayLen, Way')
<1>1. SentEnd' = SentEnd /\ BuiltEnd' = BuiltEnd /\ OwnEnd' = OwnEnd /\ WayLen' = WayLen
  BY DEF SentEnd, BuiltEnd, OwnEnd, WayLen
<1>2. ASSUME NEW i \in 1..WayLen PROVE Way'[i] = Way[i]
  <2>1. Place(i)' = Place(i)
    BY <1>1 DEF Place
  <2>2. Way[i] = Item(Place(i)) /\ Way'[i] = Item(Place(i)')
    BY <1>1 DEF Way, Item, Topic
  <2> QED  BY <2>1, <2>2
<1> QED  BY <1>1, <1>2 DEF Same

(* A built frame is sent. *)
LEMMA WaySent ==
    ASSUME EapTypeOK, UNCHANGED toDevice, RxTransmit \/ TransmitStart
    PROVE  WayLen' = WayLen /\ Same(Way, WayLen, Way')
<1>1. /\ toServer \in Seq(Replies) /\ Len(toServer) \in Nat
      /\ SentEnd = Len(toServer) /\ Len(toDevice) \in Nat
      /\ OwnEnd \in Nat /\ WayLen \in Nat /\ WayLen = OwnEnd + Len(toDevice)
      /\ \A i \in 1..WayLen : Way[i] = Item(Place(i))
  <2>1. /\ toServer \in Seq(Replies) /\ Len(toServer) \in Nat
        /\ SentEnd = Len(toServer) /\ Len(toDevice) \in Nat
        /\ WayLen = OwnEnd + Len(toDevice)
    BY DEF EapTypeOK, SupplicantTypeOK, SentEnd, WayLen
  <2> QED  BY <2>1, WayTypes DEF ItemsOf
<1>2. CASE TransmitStart /\ frame # EapolStart
  <2>1. ~Pending /\ ~Pending' /\ UNCHANGED <<toServer, rx, frame, toDevice>>
    BY <1>2 DEF TransmitStart, MainTo, Pending
  <2>2. Pending' = Pending
    BY <2>1 DEF Pending
  <2> QED  BY <2>1, <2>2, WaySame
<1>3. CASE RxTransmit
  <2>1. /\ Len(toServer') = Len(toServer) + 1
        /\ toServer'[Len(toServer) + 1] = frame
        /\ \A i \in 1..Len(toServer) : toServer'[i] = toServer[i]
        /\ rx = "built" /\ rx' = "idle" /\ frame' = frame /\ Pending' = Pending
    BY <1>1, <1>3 DEF RxTransmit, Pending
  <2>2. /\ BuiltEnd = SentEnd + 1 /\ SentEnd' = SentEnd + 1 /\ BuiltEnd' = SentEnd + 1
        /\ OwnEnd' = OwnEnd /\ WayLen' = WayLen
    BY <1>1, <2>1 DEF SentEnd, BuiltEnd, OwnEnd, WayLen
  <2>3. ASSUME NEW i \in 1..WayLen PROVE Way'[i] = Way[i]
    <3>1. Place(i)' = Place(i)
      BY <1>1, <2>1, <2>2 DEF Place
    <3>2. Way'[i] = Item(Place(i)')
      BY <2>2 DEF Way, Item, Topic
    <3> QED  BY <1>1, <3>1, <3>2
  <2> QED  BY <2>2, <2>3 DEF Same
<1>4. CASE TransmitStart /\ frame = EapolStart
  <2>1. /\ Len(toServer') = Len(toServer) + 1
        /\ toServer'[Len(toServer) + 1] = EapolStart
        /\ \A i \in 1..Len(toServer) : toServer'[i] = toServer[i]
        /\ rx' = rx /\ frame' = EapolStart /\ Pending /\ ~Pending'
    BY <1>1, <1>4 DEF TransmitStart, MainTo, Pending
  <2>2. /\ SentEnd' = SentEnd + 1 /\ BuiltEnd' = BuiltEnd + 1
        /\ BuiltEnd \in {SentEnd, SentEnd + 1}
        /\ OwnEnd = BuiltEnd + 1 /\ OwnEnd' = BuiltEnd + 1 /\ WayLen' = WayLen
    BY <1>1, <2>1 DEF SentEnd, BuiltEnd, OwnEnd, WayLen
  <2>3. ASSUME NEW i \in 1..WayLen PROVE Way'[i] = Way[i]
    <3>1. Place(i)' = Place(i)
      <4>1. i <= SentEnd => Place(i)' = toServer[i] /\ Place(i) = toServer[i]
        BY <1>1, <2>1, <2>2 DEF Place, SentEnd
      <4>2. i > SentEnd => Place(i)' = Place(i)
        BY <1>1, <1>4, <2>1, <2>2 DEF Place
      <4> QED  BY <1>1, <4>1, <4>2
    <3>2. Way'[i] = Item(Place(i)')
      BY <2>2 DEF Way, Item, Topic
    <3> QED  BY <1>1, <3>1, <3>2
  <2> QED  BY <2>2, <2>3 DEF Same
<1> QED  BY <1>2, <1>3, <1>4

(* EAPOL-Start is built, over a response that is not yet sent if there is  *)
(* one.                                                                    *)
LEMMA WayStartBuilt ==
    ASSUME EapTypeOK, UNCHANGED toDevice, BuildStart
    PROVE  /\ WayLen' = WayLen
           /\ rx = "idle" => Same(Way, WayLen, Way')
           /\ rx = "built" =>
                 /\ SentEnd + 1 \in 1..(WayLen - 1)
                 /\ Replaced(Way, WayLen, Way', SentEnd + 1)
                 /\ Way[SentEnd + 1].topic # "finish"
                 /\ Way[SentEnd + 2].topic = "hello"
<1>1. /\ SentEnd \in Nat /\ BuiltEnd \in Nat /\ OwnEnd \in Nat /\ WayLen \in Nat
      /\ Len(toDevice) \in Nat /\ WayLen = OwnEnd + Len(toDevice)
      /\ \A i \in 1..WayLen : Way[i] = Item(Place(i))
      /\ \A i \in 1..OwnEnd : Way[i].topic # "finish"
  BY WayTypes DEF EapTypeOK, WayLen, ItemsOf
<1>2. /\ Pending /\ Pending' /\ UNCHANGED <<toServer, rx>> /\ frame' = EapolStart
  BY DEF BuildStart, MainTo, Pending
<1>3. /\ SentEnd' = SentEnd /\ BuiltEnd' = BuiltEnd /\ OwnEnd' = OwnEnd
      /\ WayLen' = WayLen /\ OwnEnd = BuiltEnd + 1
      /\ rx = "idle" => BuiltEnd = SentEnd
      /\ rx = "built" => BuiltEnd = SentEnd + 1
  BY <1>1, <1>2 DEF SentEnd, BuiltEnd, OwnEnd, WayLen
<1>4. ASSUME NEW i \in 1..WayLen PROVE Way'[i] = Item(Place(i)')
  BY <1>3 DEF Way, Item, Topic
<1>5. ASSUME NEW i \in 1..WayLen, i # SentEnd + 1 \/ rx = "idle"
      PROVE  Way'[i] = Way[i]
  <2>1. rx \in {"idle", "built"}
    BY DEF EapTypeOK, SupplicantTypeOK
  <2>2. Place(i)' = Place(i)
    BY <1>1, <1>2, <1>3, <1>5, <2>1 DEF Place
  <2> QED  BY <1>1, <1>4, <2>2
<1>6. ASSUME rx = "built"
      PROVE  /\ SentEnd + 1 \in 1..(WayLen - 1)
             /\ Way'[SentEnd + 1].topic = "hello"
             /\ Way[SentEnd + 1].topic # "finish"
             /\ Way[SentEnd + 2].topic = "hello"
  <2>1. SentEnd + 1 \in 1..(WayLen - 1) /\ SentEnd + 1 \in 1..OwnEnd
        /\ SentEnd + 2 \in 1..WayLen
    BY <1>1, <1>3, <1>6
  <2>2. Place(SentEnd + 2) = EapolStart
        /\ \A i \in 1..WayLen : i = SentEnd + 1 => Place(i)' = EapolStart
    BY <1>1, <1>2, <1>3, <1>6 DEF Place
  <2>3. Item(EapolStart).topic = "hello"
    BY FrameItems DEF Item
  <2>4. Way'[SentEnd + 1] = Item(EapolStart) /\ Way[SentEnd + 2] = Item(EapolStart)
    <3>1. SentEnd + 1 \in 1..WayLen
      BY <1>1, <2>1
    <3> HIDE DEF Place, Item
    <3> QED  BY <1>1, <1>4, <2>1, <2>2, <3>1
  <2> QED  BY <1>1, <2>1, <2>3, <2>4
<1> QED  BY <1>3, <1>5, <1>6 DEF Same, Replaced

-----------------------------------------------------------------------------
(* The line is preserved. *)

LEMMA LineSame ==
    ASSUME NEW v, NEW n, NEW w, NEW ph \in Phases, NEW e,
           ItemsOf(v, n), Line(v, n, ph, e), Same(v, n, w)
    PROVE  Line(w, n, ph, e)
<1>1. n \in 0..3
  BY DEF Line, ItemsOf
<1>2. /\ \A i \in 1..n : w[i] = v[i]
      /\ n >= 2 => w[2] = v[2]
      /\ n = 3 => w[3] = v[3]
  BY <1>1 DEF Same
<1>3. Apart(w, n, ph)
  BY <1>2 DEF Line, Apart
<1>4. ph = "None" => IdleLine(w, n, e)
  BY <1>2 DEF Line, IdleLine
<1>5. ph = "Identity" => IdentityLine(w, n, e)
  BY <1>2 DEF Line, IdentityLine
<1>6. ph = "Start" => StartLine(w, n, e)
  BY <1>2 DEF Line, StartLine
<1>7. ph = "Data" => DataLine(w, n, e)
  BY <1>2 DEF Line, DataLine
<1> QED  BY <1>1, <1>3, <1>4, <1>5, <1>6, <1>7 DEF Line

LEMMA LineNext == Line(Way', WayLen', Phase', eap_id') => LineOK'
BY DEF LineOK, Line, Apart, IdleLine, IdentityLine, StartLine, DataLine, Succ

(* The step of the authenticator after a response it takes. *)
LEMMA PhaseTypes ==
    ASSUME EapTypeOK, RequestOK
    PROVE  Phase \in Phases /\ (request = Nil <=> Phase = "None")
BY DEF RequestOK, Phase, Phases

LEMMA ServerLine ==
    ASSUME EnoughIds, EapTypeOK, LineOK, RequestOK, ServerReceives
    PROVE  LineOK'
<1> DEFINE r == Head(toServer)
<1>1. /\ r \in Replies /\ eap_id \in 0..(Ids - 1)
      /\ toServer # <<>> /\ toServer' = Tail(toServer)
      /\ UNCHANGED <<main, rx, frame>>
      /\ NextId = Succ(eap_id)
  BY QueueTail DEF ServerReceives, EapTypeOK, SupplicantTypeOK, NextId, Succ
<1>2. /\ ItemsOf(Way, WayLen) /\ Line(Way, WayLen, Phase, eap_id)
      /\ Phase \in Phases /\ (request = Nil <=> Phase = "None")
  BY WayTypes, PhaseTypes DEF LineOK
<1>3. /\ WayLen >= 1 /\ Way[1] = Item(r)
      /\ toDevice' = toDevice =>
            WayLen' = WayLen - 1 /\ Removed(Way, WayLen, Way', 1)
      /\ \A p \in Packets : toDevice' = Append(toDevice, p) =>
            WayLen' = WayLen /\ Passed(Way, WayLen, Way', Item(p))
  BY <1>1, WayTaken
<1>4. WayLen \in Nat /\ Way[1].id = r.id /\ Way[1].topic = Topic(r)
  BY <1>2, <1>3 DEF ItemsOf, Item
<1>5. ASSUME NEW p \in Packets, Ask(p), p.kind \in {"Identity", "Start", "Data"},
             p.id = Succ(eap_id)
      PROVE  /\ WayLen' = WayLen /\ Passed(Way, WayLen, Way', Item(p))
             /\ Phase' = p.kind /\ eap_id' = Succ(eap_id)
             /\ Item(p).id = Succ(eap_id)
  BY <1>3, <1>5, NilAssumption DEF Ask, Phase, Item
<1>6. CASE r.kind = "EapolStart"
  <2>1. Ask(Packet("Identity", 0, 0))
    BY <1>6 DEF ServerReceives
  <2>2. /\ Packet("Identity", 0, 0) \in Packets
        /\ Packet("Identity", 0, 0).kind = "Identity"
        /\ Packet("Identity", 0, 0).id = Succ(eap_id)
        /\ Item(Packet("Identity", 0, 0)) = [topic |-> "identity", id |-> Succ(eap_id)]
    BY <1>1, PacketTypes, Numbers DEF Packet, EapTypeOK, AuthTypes, Item, Topic
  <2>3. Topic(r) = "hello"
    BY <1>6 DEF Topic
  <2> HIDE DEF Packet
  <2>4. Line(Way', WayLen', Phase', eap_id')
    BY <1>1, <1>2, <1>3, <1>4, <1>5, <2>1, <2>2, <2>3, LineHello
  <2> QED  BY <2>4, LineNext
<1>7. CASE UNCHANGED authVars
  <2>1. WayLen' = WayLen - 1 /\ Removed(Way, WayLen, Way', 1) /\ 1 \in 1..WayLen
        /\ Phase' = Phase /\ eap_id' = eap_id
    BY <1>3, <1>4, <1>7 DEF authVars, Phase
  <2>2. Line(Way', WayLen', Phase', eap_id')
    BY <1>2, <2>1, LineRemove
  <2> QED  BY <2>2, LineNext
<1>8. CASE /\ r.kind # "EapolStart" /\ request # Nil /\ r.id = eap_id
           /\ Finish("Success") \/ Finish("Failure")
  <2>1. PICK kind \in {"Success", "Failure"} : Finish(kind)
    BY <1>8
  <2>2. /\ Packet(kind, 0, 0) \in Packets
        /\ Item(Packet(kind, 0, 0)) = [topic |-> "finish", id |-> Succ(eap_id)]
    BY <1>1, PacketTypes, Numbers DEF Packet, EapTypeOK, AuthTypes, Item, Topic
  <2> HIDE DEF Packet
  <2>3. /\ Passed(Way, WayLen, Way', [topic |-> "finish", id |-> Succ(eap_id)])
        /\ WayLen' = WayLen /\ Phase' = "None" /\ eap_id' = Succ(eap_id)
    BY <1>1, <1>3, <2>1, <2>2 DEF Finish, Phase
  <2>4. Topic(r) \notin {"hello", "finish"}
    BY <1>1, <1>8 DEF Topic, Replies
  <2>5. Line(Way', WayLen', Phase', eap_id')
    BY <1>1, <1>2, <1>3, <1>4, <1>8, <2>3, <2>4, LineFinish
  <2> QED  BY <2>5, LineNext
<1>9. CASE /\ request # Nil /\ r.id = eap_id /\ Following(r) # Nil
           /\ Ask(Following(r))
  <2>1. Following(r) \in Packets
    BY <1>1, <1>9, FollowingTypes DEF EapTypeOK, AuthTypes
  <2>2. Phase = request.kind /\ Following(r).id = Succ(eap_id)
    BY <1>1, <1>9, FollowingCases DEF Phase, Packet
  <2>3. ASSUME NEW t,
               \/ Phase = "Identity" /\ Topic(r) = "identity"
                  /\ Following(r).kind = "Start" /\ t = "start"
               \/ Phase = "Start" /\ Topic(r) = "start"
                  /\ Following(r).kind = "Data" /\ t = "data"
               \/ Phase = "Data" /\ Topic(r) = "data"
                  /\ Following(r).kind = "Data" /\ t = "data"
        PROVE  LineOK'
    <3>1. Item(Following(r)) = [topic |-> t, id |-> Succ(eap_id)]
      BY <2>2, <2>3 DEF Item, Topic
    <3>2. /\ Passed(Way, WayLen, Way', [topic |-> t, id |-> Succ(eap_id)])
          /\ WayLen' = WayLen /\ Phase' = Following(r).kind /\ eap_id' = Succ(eap_id)
      BY <1>5, <1>9, <2>1, <2>2, <2>3, <3>1
    <3>3. Line(Way', WayLen', Phase', eap_id')
      BY <1>1, <1>2, <1>3, <1>4, <1>9, <2>3, <3>2, LineFollow
    <3> QED  BY <3>3, LineNext
  <2>4. \/ Phase = "Identity" /\ Topic(r) = "identity" /\ Following(r).kind = "Start"
        \/ Phase = "Start" /\ Topic(r) = "start" /\ Following(r).kind = "Data"
        \/ Phase = "Data" /\ Topic(r) = "data" /\ Following(r).kind = "Data"
    BY <1>9, <2>2, FollowingCases DEF Packet, Topic
  <2> QED  BY <2>3, <2>4
<1> QED  BY <1>6, <1>7, <1>8, <1>9 DEF ServerReceives

LEMMA AuthenticatorLine ==
    ASSUME EnoughIds, EapTypeOK, LineOK, RequestOK,
           Initiate \/ Retransmit \/ GiveUp
    PROVE  LineOK'
<1>1. /\ eap_id \in 0..(Ids - 1) /\ NextId = Succ(eap_id)
      /\ toServer \in Seq(Replies) /\ UNCHANGED <<toServer, main, rx, frame>>
      /\ toDevice = <<>>
  BY DEF EapTypeOK, SupplicantTypeOK, NextId, Succ, Initiate, Retransmit, GiveUp,
         Quiescent, supplicantVars
<1>2. /\ ItemsOf(Way, WayLen) /\ Line(Way, WayLen, Phase, eap_id)
      /\ Phase \in Phases /\ (request = Nil <=> Phase = "None")
      /\ WayLen = OwnEnd /\ OwnEnd \in Nat
      /\ \A i \in 1..WayLen : Way[i] = Item(Place(i)) /\ Way[i].topic # "finish"
  <2>1. WayLen = OwnEnd
    BY <1>1, WayTypes DEF WayLen
  <2> QED  BY <2>1, WayTypes, PhaseTypes DEF LineOK
<1>3. \A p \in Packets : toDevice' = Append(toDevice, p) =>
         WayLen' = WayLen + 1 /\ Added(Way, WayLen, Way', Item(p))
  BY <1>1, WayAdded
<1>4. ASSUME Quiescent PROVE WayLen = 0 \/ (WayLen = 1 /\ Way[1].topic = "hello")
  <2>1. SentEnd = 0 /\ BuiltEnd = 0 /\ OwnEnd \in {0, 1}
    BY <1>4 DEF SentEnd, BuiltEnd, OwnEnd, Quiescent
  <2>2. OwnEnd = 1 => Place(1) = EapolStart
    BY <2>1 DEF Place
  <2>3. Item(EapolStart).topic = "hello"
    BY FrameItems DEF Item
  <2>4. OwnEnd = 1 => Way[1] = Item(EapolStart)
    BY <1>2, <2>1, <2>2
  <2> QED  BY <1>2, <2>1, <2>3, <2>4
<1>5. CASE Initiate
  <2>1. /\ Packet("Identity", 0, 0) \in Packets
        /\ Packet("Identity", 0, 0).kind = "Identity"
        /\ Packet("Identity", 0, 0).id = Succ(eap_id)
        /\ Item(Packet("Identity", 0, 0)) = [topic |-> "identity", id |-> Succ(eap_id)]
    BY <1>1, PacketTypes, Numbers DEF Packet, EapTypeOK, AuthTypes, Item, Topic
  <2> HIDE DEF Packet
  <2>2. /\ WayLen' = WayLen + 1 /\ Phase = "None"
        /\ Added(Way, WayLen, Way', [topic |-> "identity", id |-> Succ(eap_id)])
        /\ Phase' = "Identity" /\ eap_id' = Succ(eap_id)
    BY <1>2, <1>3, <1>5, <2>1, NilAssumption DEF Initiate, Ask, Phase
  <2>3. Line(Way', WayLen', Phase', eap_id')
    BY <1>1, <1>2, <2>2, LineInitiate
  <2> QED  BY <2>3, LineNext
<1>6. CASE Retransmit
  <2>1. /\ request \in Packets /\ request.id = eap_id /\ request.kind = Phase
        /\ Phase \in {"Identity", "Start", "Data"} /\ Phase' = Phase /\ eap_id' = eap_id
    BY <1>6 DEF Retransmit, EapTypeOK, RequestOK, Phase
  <2>2. toDevice' = Append(toDevice, request)
    BY <1>1, <1>6, <2>1 DEF Retransmit
  <2>3. /\ WayLen' = WayLen + 1 /\ Added(Way, WayLen, Way', Item(request))
        /\ WayLen = 0 \/ (WayLen = 1 /\ Way[1].topic = "hello")
    BY <1>3, <1>4, <1>6, <2>1, <2>2 DEF Retransmit
  <2>4. /\ Item(request).id = eap_id
        /\ \/ Phase = "Identity" /\ Item(request).topic = "identity"
           \/ Phase = "Start" /\ Item(request).topic = "start"
           \/ Phase = "Data" /\ Item(request).topic = "data"
    BY <2>1 DEF Item, Topic
  <2>5. Line(Way', WayLen', Phase', eap_id')
    BY <2>1, <2>3, <2>4, LineAgain
  <2> QED  BY <2>5, LineNext
<1>7. CASE GiveUp
  <2>1. /\ Packet("Failure", 0, 0) \in Packets
        /\ Item(Packet("Failure", 0, 0)).topic = "finish"
    BY <1>1, PacketTypes, Numbers DEF Packet, EapTypeOK, AuthTypes, Item, Topic
  <2> HIDE DEF Packet
  <2>2. /\ WayLen' = WayLen + 1
        /\ Added(Way, WayLen, Way', Item(Packet("Failure", 0, 0)))
        /\ WayLen = 0 \/ (WayLen = 1 /\ Way[1].topic = "hello")
        /\ Phase' = "None"
    BY <1>3, <1>4, <1>7, <2>1 DEF GiveUp, Finish, Phase
  <2>3. Line(Way', WayLen', Phase', eap_id')
    BY <2>1, <2>2, LineAgain
  <2> QED  BY <2>3, LineNext
<1> QED  BY <1>5, <1>6, <1>7

(* The handler is silent, or answers a request with a response to it. *)
LEMMA HandlerAnswers ==
    ASSUME EapTypeOK, EngineOK, NEW p \in Packets, eap_frame_handler(p)
    PROVE  \/ UNCHANGED <<frame, rx>>
           \/ /\ p.kind \in {"Identity", "Start", "Data"} /\ rx' = "built"
              /\ frame'.kind # "EapolStart" /\ Item(frame') = Item(p)
<1>1. ASSUME NEW kind \in {"Identity", "ClientHello", "Flight2", "Alert", "Ack"},
             Respond(p, kind), Topic([kind |-> kind]) = Topic(p)
      PROVE  rx' = "built" /\ frame'.kind # "EapolStart" /\ Item(frame') = Item(p)
  BY <1>1 DEF Respond, Item, Topic
<1>2. CASE HandleIdentity(p)
  BY <1>1, <1>2 DEF HandleIdentity, Silent, Topic
<1>3. CASE StartAnswered(p)
  BY <1>1, <1>3 DEF StartAnswered, Topic
<1>4. CASE HandleSuccess(p) \/ HandleFailure(p) \/ StartOverflows(p) \/ DataOverflows(p)
  BY <1>4 DEF HandleSuccess, HandleFailure, StartOverflows, DataOverflows, Silent
<1>5. CASE DataStored(p)
  BY <1>1, <1>5 DEF DataStored, Silent, Topic
<1>6. CASE DataProcessed(p)
  <2>1. /\ p.kind = "Data"
        /\ s_state \in {"KEY_EXCHANGE", "CHANGE_CIPHER_SPEC"}
        /\ send_buf \in {Nil, "Alert"}
    BY <1>6 DEF DataProcessed, EngineOK
  <2>2. PICK r \in Handshake(engine.hs, engine.eaten, send_buf,
                            Append(s_tls_in, Chunk(p))) :
           IF r.ret = "WANT_READ" /\ r.buf # Nil THEN Respond(p, r.buf) ELSE Silent
    BY <1>6 DEF DataProcessed
  <2>3. r.buf \in {Nil, "Flight2", "Alert"}
    BY <2>1 DEF Handshake
  <2> QED  BY <1>1, <2>1, <2>2, <2>3 DEF Silent, Topic
<1> QED
  BY <1>2, <1>3, <1>4, <1>5, <1>6 DEF eap_frame_handler

LEMMA ReceiveLine ==
    ASSUME EapTypeOK, LineOK, RequestOK, EngineOK, DeviceReceives
    PROVE  LineOK'
<1> DEFINE p == Head(toDevice)
<1>1. /\ p \in Packets /\ toDevice # <<>> /\ toDevice' = Tail(toDevice)
      /\ rx = "idle" /\ UNCHANGED <<toServer, main>> /\ eap_frame_handler(p)
      /\ Phase' = Phase /\ eap_id' = eap_id
  BY QueueTail DEF DeviceReceives, EapTypeOK, eap_frame_handler, Phase
<1>2. /\ ItemsOf(Way, WayLen) /\ Line(Way, WayLen, Phase, eap_id) /\ Phase \in Phases
      /\ WayLen \in Nat /\ SentEnd \in Nat
  BY WayTypes, PhaseTypes DEF LineOK, ItemsOf
<1>3. CASE UNCHANGED <<frame, rx>>
  <2>1. /\ WayLen' = WayLen - 1 /\ OwnEnd + 1 \in 1..WayLen
        /\ Removed(Way, WayLen, Way', OwnEnd + 1)
    BY <1>1, <1>3, WayDropped
  <2>2. Line(Way', WayLen', Phase', eap_id')
    BY <1>1, <1>2, <2>1, LineRemove
  <2> QED  BY <2>2, LineNext
<1>4. CASE /\ p.kind \in {"Identity", "Start", "Data"} /\ rx' = "built"
           /\ frame'.kind # "EapolStart" /\ Item(frame') = Item(p)
  <2>1. CASE ~Pending
    <3>1. WayLen' = WayLen /\ Same(Way, WayLen, Way')
      BY <1>1, <1>4, <2>1, WayAnswered
    <3>2. Line(Way', WayLen', Phase', eap_id')
      BY <1>1, <1>2, <3>1, LineSame
    <3> QED  BY <3>2, LineNext
  <2>2. CASE main \in {"booting", "initialised", "waiting"}
    <3>1. /\ WayLen' = WayLen /\ SentEnd + 1 \in 1..(WayLen - 1)
          /\ Overtaken(Way, WayLen, Way', SentEnd + 1)
          /\ Way[SentEnd + 1].topic = "hello"
          /\ Way[SentEnd + 2] = Item(p)
      BY <1>1, <1>4, <2>2, WayAnswered
    <3>2. Item(p).topic \notin {"hello", "finish"}
      BY <1>4 DEF Item, Topic
    <3>3. (SentEnd + 1) + 1 = SentEnd + 2
      BY <1>2
    <3>4. Line(Way', WayLen', Phase', eap_id')
      BY <1>1, <1>2, <3>1, <3>2, <3>3, LineOvertake
    <3> QED  BY <3>4, LineNext
  <2>3. CASE main = "built" /\ frame = EapolStart
    <3>1. /\ WayLen' = WayLen - 1 /\ SentEnd + 1 \in 1..WayLen
          /\ Removed(Way, WayLen, Way', SentEnd + 1)
      BY <1>1, <1>4, <2>3, WayAnswered
    <3>2. Line(Way', WayLen', Phase', eap_id')
      BY <1>1, <1>2, <3>1, LineRemove
    <3> QED  BY <3>2, LineNext
  <2> QED  BY <2>1, <2>2, <2>3 DEF Pending
<1> QED  BY <1>1, <1>3, <1>4, HandlerAnswers

LEMMA TransmitLine ==
    ASSUME EapTypeOK, LineOK, RequestOK, UNCHANGED authVars,
           RxTransmit \/ MainStep
    PROVE  LineOK'
<1>1. /\ ItemsOf(Way, WayLen) /\ Line(Way, WayLen, Phase, eap_id) /\ Phase \in Phases
      /\ WayLen \in Nat /\ SentEnd \in Nat /\ rx \in {"idle", "built"}
      /\ UNCHANGED toDevice /\ Phase' = Phase /\ eap_id' = eap_id
  BY WayTypes, PhaseTypes
  DEF LineOK, ItemsOf, EapTypeOK, SupplicantTypeOK, authVars, Phase
<1>2. ASSUME WayLen' = WayLen, Same(Way, WayLen, Way') PROVE LineOK'
  <2>1. Line(Way', WayLen', Phase', eap_id')
    BY <1>1, <1>2, LineSame
  <2> QED  BY <2>1, LineNext
<1>3. CASE RxTransmit \/ TransmitStart
  BY <1>1, <1>2, <1>3, WaySent
<1>4. CASE TlsInit \/ StartAllowed \/ StoreStart
  <2>1. UNCHANGED <<toServer, rx, frame, toDevice>> /\ Pending' = Pending
    BY <1>1, <1>4 DEF TlsInit, StartAllowed, StoreStart, MainTo, Pending
  <2> QED  BY <1>2, <2>1, WaySame
<1>5. CASE BuildStart
  <2>1. /\ WayLen' = WayLen
        /\ rx = "idle" => Same(Way, WayLen, Way')
        /\ rx = "built" =>
              /\ SentEnd + 1 \in 1..(WayLen - 1)
              /\ Replaced(Way, WayLen, Way', SentEnd + 1)
              /\ Way[SentEnd + 1].topic # "finish"
              /\ Way[SentEnd + 2].topic = "hello"
    BY <1>1, <1>5, WayStartBuilt
  <2>2. CASE rx = "built"
    <3>1. (SentEnd + 1) + 1 = SentEnd + 2
      BY <1>1
    <3>2. Line(Way', WayLen', Phase', eap_id')
      BY <1>1, <2>1, <2>2, <3>1, LineReplace
    <3> QED  BY <3>2, LineNext
  <2> QED  BY <1>1, <1>2, <2>1, <2>2
<1> QED  BY <1>3, <1>4, <1>5 DEF MainStep

(* The link goes down or the device restarts: the response in the buffer   *)
(* and the EAPOL-Start of the main task are what is left.                  *)
LEMMA EndLine ==
    ASSUME toServer' = <<>>, NewSession
    PROVE  LineOK'
<1>1. SentEnd' = 0 /\ Len(toDevice') = 0 /\ Phase' = "None"
  BY DEF SentEnd, NewSession, Phase
<1>2. BuiltEnd' = 0 \/ BuiltEnd' = 1
  BY <1>1 DEF BuiltEnd
<1>3. OwnEnd' = BuiltEnd' \/ OwnEnd' = BuiltEnd' + 1
  BY <1>2 DEF OwnEnd, Pending
<1>4. WayLen' = OwnEnd' /\ WayLen' \in {0, 1, 2}
  BY <1>1, <1>2, <1>3 DEF WayLen
<1>5. ASSUME WayLen' = 2 PROVE Way'[2].topic = "hello"
  <2>1. BuiltEnd' = 1 /\ OwnEnd' = 2
    BY <1>2, <1>3, <1>4, <1>5
  <2>2. Place(2)' = EapolStart
    BY <1>1, <2>1 DEF Place
  <2>3. Way'[2] = Item(Place(2)')
    BY <1>5 DEF Way, Item, Topic
  <2>4. Item(EapolStart).topic = "hello"
    BY FrameItems DEF Item
  <2> QED  BY <2>2, <2>3, <2>4
<1>6. Line(Way', WayLen', Phase', eap_id')
  BY <1>1, <1>4, <1>5, LineRest
<1> QED  BY <1>6, LineNext

LEMMA LossLine ==
    ASSUME EapTypeOK, LineOK, RequestOK, FrameLost
    PROVE  LineOK'
<1>1. /\ ItemsOf(Way, WayLen) /\ Line(Way, WayLen, Phase, eap_id) /\ Phase \in Phases
      /\ Phase' = Phase /\ eap_id' = eap_id /\ UNCHANGED <<main, rx, frame>>
  BY WayTypes, PhaseTypes DEF LineOK, FrameLost, Phase
<1>2. PICK k \in 1..WayLen : WayLen' = WayLen - 1 /\ Removed(Way, WayLen, Way', k)
  <2>1. CASE toServer # <<>> /\ toServer' = Tail(toServer) /\ UNCHANGED toDevice
    BY <1>1, <2>1, WayLost
  <2>2. CASE toDevice # <<>> /\ toDevice' = Tail(toDevice) /\ UNCHANGED toServer
    BY <1>1, <2>2, WayDropped
  <2> QED  BY <2>1, <2>2 DEF FrameLost
<1>3. Line(Way', WayLen', Phase', eap_id')
  BY <1>1, <1>2, LineRemove
<1> QED  BY <1>3, LineNext

(* No step puts a fourth frame under way or mixes up the order. *)
LEMMA LineStep ==
    ASSUME EnoughIds, EapTypeOK, LineOK, RequestOK, EngineOK, [EapNext]_eapVars
    PROVE  LineOK'
<1>1. CASE ServerReceives
  BY <1>1, ServerLine
<1>2. CASE Initiate \/ Retransmit \/ GiveUp
  BY <1>2, AuthenticatorLine
<1>3. CASE DeviceReceives
  BY <1>3, ReceiveLine
<1>4. CASE DeviceTransmits \/ MainRuns
  BY <1>4, TransmitLine DEF DeviceTransmits, MainRuns
<1>5. CASE DeviceRestarts \/ LinkLost
  BY <1>5, EndLine DEF DeviceRestarts, SupplicantRestart, LinkLost
<1>6. CASE FrameLost
  BY <1>6, LossLine
<1>7. CASE LinkStep \/ UNCHANGED eapVars
  <2>1. /\ UNCHANGED <<toServer, rx, frame, main, toDevice>>
        /\ Phase' = Phase /\ eap_id' = eap_id
    BY <1>7 DEF LinkStep, eapVars, supplicantVars, authVars, Phase
  <2>2. Pending' = Pending
    BY <2>1 DEF Pending
  <2>3. WayLen' = WayLen /\ Same(Way, WayLen, Way')
    BY <2>1, <2>2, WaySame
  <2>4. Line(Way', WayLen', Phase', eap_id')
    BY <2>1, <2>3, WayTypes, PhaseTypes, LineSame DEF LineOK
  <2> QED  BY <2>4, LineNext
<1> QED  BY <1>1, <1>2, <1>3, <1>4, <1>5, <1>6, <1>7 DEF EapNext

-----------------------------------------------------------------------------
(* The request. *)

LEMMA RequestStep ==
    ASSUME EapTypeOK, RequestOK, [EapNext]_eapVars
    PROVE  RequestOK'
<1>0. /\ toDevice \in Seq(Packets) /\ toServer \in Seq(Replies)
      /\ request \in Packets \cup {Nil}
  BY DEF EapTypeOK, SupplicantTypeOK
<1>1. ASSUME NEW p, Ask(p), p.kind \in {"Identity", "Start", "Data"}
      PROVE  RequestOK'
  BY <1>0, <1>1 DEF Ask, RequestOK
<1>2. ASSUME NEW kind, Finish(kind) PROVE RequestOK'
  BY <1>2 DEF Finish, RequestOK
<1>3. ASSUME UNCHANGED authVars PROVE RequestOK'
  BY <1>3 DEF RequestOK, authVars
<1>4. ASSUME NewSession PROVE RequestOK'
  BY <1>4 DEF NewSession, RequestOK
<1>5. ASSUME toDevice # <<>>, toDevice' = Tail(toDevice), UNCHANGED <<request, eap_id>>
      PROVE  RequestOK'
  BY <1>0, <1>5 DEF RequestOK
<1>6. CASE ServerReceives
  <2>1. CASE Ask(Packet("Identity", 0, 0))
    BY <1>1, <2>1 DEF Packet
  <2>2. CASE Following(Head(toServer)) # Nil /\ Ask(Following(Head(toServer)))
    BY <1>1, <2>2, FollowingCases DEF Packet
  <2> QED  BY <1>2, <1>3, <1>6, <2>1, <2>2 DEF ServerReceives
<1>7. CASE Initiate
  BY <1>1, <1>7 DEF Initiate, Packet
<1>8. CASE Retransmit
  BY <1>0, <1>8 DEF Retransmit, RequestOK
<1>9. CASE GiveUp
  BY <1>2, <1>9 DEF GiveUp
<1>10. CASE DeviceReceives
  BY <1>5, <1>10 DEF DeviceReceives
<1>11. CASE FrameLost
  <2>1. CASE UNCHANGED toDevice
    BY <1>11, <2>1 DEF FrameLost, RequestOK
  <2> QED  BY <1>5, <1>11, <2>1 DEF FrameLost
<1>12. CASE DeviceTransmits \/ MainRuns \/ LinkStep \/ UNCHANGED eapVars
  BY <1>3, <1>12 DEF DeviceTransmits, MainRuns, LinkStep, eapVars, authVars
<1>13. CASE DeviceRestarts \/ LinkLost
  BY <1>4, <1>13 DEF DeviceRestarts, LinkLost
<1> QED
  BY <1>6, <1>7, <1>8, <1>9, <1>10, <1>11, <1>12, <1>13 DEF EapNext

-----------------------------------------------------------------------------
(* What the line says of the packets and the responses under way. *)

LEMMA PacketPlaces ==
    ASSUME EapTypeOK, NEW i \in 1..Len(toDevice)
    PROVE  /\ OwnEnd + i \in 1..WayLen /\ Way[OwnEnd + i] = Item(toDevice[i])
           /\ toDevice[i] \in Packets
<1>1. /\ SentEnd \in Nat /\ BuiltEnd \in Nat /\ OwnEnd \in Nat
      /\ SentEnd <= BuiltEnd /\ BuiltEnd <= OwnEnd
      /\ \A j \in 1..WayLen : Way[j] = Item(Place(j))
  BY WayTypes
<1>2. toDevice \in Seq(Packets) /\ Len(toDevice) \in Nat /\ WayLen = OwnEnd + Len(toDevice)
  BY DEF EapTypeOK, WayLen
<1>3. /\ OwnEnd + i \in 1..WayLen
      /\ ~(OwnEnd + i <= SentEnd) /\ ~(OwnEnd + i <= BuiltEnd) /\ ~(OwnEnd + i <= OwnEnd)
      /\ (OwnEnd + i) - OwnEnd = i
  BY <1>1, <1>2
<1>4. Place(OwnEnd + i) = toDevice[i]
  BY <1>3 DEF Place
<1> QED  BY <1>1, <1>2, <1>3, <1>4

LEMMA AnswerPlaces ==
    ASSUME EapTypeOK, NEW f \in Answers
    PROVE  \E i \in 1..OwnEnd : Way[i] = Item(f)
<1>1. /\ SentEnd \in Nat /\ BuiltEnd \in Nat /\ OwnEnd \in Nat
      /\ SentEnd <= BuiltEnd /\ BuiltEnd <= OwnEnd /\ OwnEnd <= WayLen
      /\ WayLen \in Nat
      /\ \A j \in 1..WayLen : Way[j] = Item(Place(j))
  BY WayTypes DEF ItemsOf
<1>2. toServer \in Seq(Replies) /\ Len(toServer) \in Nat /\ SentEnd = Len(toServer)
      /\ (toServer # <<>> => SentEnd >= 1)
  BY DEF EapTypeOK, SupplicantTypeOK, SentEnd
<1>3. CASE \E i \in DOMAIN toServer : f = toServer[i]
  <2>1. PICK i \in DOMAIN toServer : f = toServer[i]
    BY <1>3
  <2>2. i \in 1..SentEnd /\ Place(i) = f
    BY <1>2, <2>1 DEF Place
  <2>3. i \in 1..OwnEnd /\ Way[i] = Item(f)
    BY <1>1, <1>2, <2>1, <2>2
  <2> QED  BY <2>3
<1>4. CASE rx = "built" /\ f = frame
  <2>1. BuiltEnd = SentEnd + 1
    BY <1>4 DEF BuiltEnd
  <2>2. Place(BuiltEnd) = f
    BY <1>1, <1>4, <2>1 DEF Place
  <2>3. BuiltEnd \in 1..OwnEnd /\ Way[BuiltEnd] = Item(f)
    BY <1>1, <1>2, <2>1, <2>2
  <2> QED  BY <2>3
<1> QED  BY <1>3, <1>4 DEF Answers

(* Apart from what the device answers, no response comes up. *)
LEMMA AnswersStep ==
    ASSUME EapTypeOK, [EapNext]_eapVars, ~DeviceReceives
    PROVE  \A f \in Answers' : f \in Answers \/ f = EapolStart
<1>1. toServer \in Seq(Replies)
  BY DEF EapTypeOK, SupplicantTypeOK
<1>2. CASE UNCHANGED <<toServer, rx, frame>>
  BY <1>2 DEF Answers
<1>3. CASE toServer' = <<>> /\ (rx' = "idle" \/ UNCHANGED <<rx, frame>>)
  BY <1>3 DEF Answers
<1>4. CASE toServer # <<>> /\ toServer' = Tail(toServer) /\ UNCHANGED <<rx, frame>>
  BY <1>1, <1>4 DEF Answers
<1>5. CASE RxTransmit
  BY <1>1, <1>5 DEF RxTransmit, Answers
<1>6. CASE TransmitStart
  BY <1>1, <1>2, <1>6 DEF TransmitStart, Answers
<1>7. CASE BuildStart
  BY <1>1, <1>7 DEF BuildStart, Answers
<1> QED
  BY <1>2, <1>3, <1>4, <1>5, <1>6, <1>7
  DEF EapNext, ServerReceives, Initiate, Retransmit, GiveUp, DeviceTransmits,
      MainRuns, MainStep, TlsInit, StartAllowed, StoreStart, DeviceRestarts,
      SupplicantRestart, LinkLost, LinkStep, FrameLost, supplicantVars, eapVars

(* A response the authenticator takes is the last of its session: nothing  *)
(* else is under way but EAPOL-Start.                                      *)
LEMMA TakenAlone ==
    ASSUME EapTypeOK, LineOK, RequestOK, toServer # <<>>,
           Head(toServer).id = eap_id,
           \/ Phase = "Start" /\ Topic(Head(toServer)) = "start"
           \/ Phase = "Data" /\ Topic(Head(toServer)) = "data"
    PROVE  /\ toDevice = <<>>
           /\ \A i \in 2..WayLen : Way[i].topic = "hello"
<1>1. /\ WayLen \in Nat /\ WayLen >= 1 /\ OwnEnd \in Nat /\ OwnEnd >= 1
      /\ Way[1] = Item(Head(toServer))
      /\ \A i \in 1..WayLen : Way[i] = Item(Place(i))
  <2>1. toServer \in Seq(Replies) /\ SentEnd >= 1 /\ SentEnd \in Nat
    BY DEF EapTypeOK, SupplicantTypeOK, SentEnd
  <2>2. 1 <= SentEnd /\ 1 \in 1..WayLen /\ OwnEnd >= 1 /\ WayLen \in Nat /\ OwnEnd \in Nat
    BY <2>1, WayTypes DEF ItemsOf
  <2>3. Place(1) = Head(toServer)
    BY <2>1, <2>2 DEF Place
  <2> QED  BY <2>2, <2>3, WayTypes
<1>2. \A i \in 2..WayLen : Way[i].topic = "hello"
  <2>1. Way[1].topic = Topic(Head(toServer)) /\ Way[1].id = eap_id
    BY <1>1 DEF Item
  <2>2. CASE Phase = "Start"
    BY <1>1, <2>1, <2>2 DEF LineOK, Line, StartLine
  <2>3. CASE Phase = "Data"
    BY <1>1, <2>1, <2>3 DEF LineOK, Line, DataLine, Apart
  <2> QED  BY <2>2, <2>3
<1>3. toDevice = <<>>
  <2>1. toDevice \in Seq(Packets) /\ Len(toDevice) \in Nat
    BY DEF EapTypeOK
  <2>2. ASSUME Len(toDevice) >= 1 PROVE FALSE
    <3>1. /\ OwnEnd + 1 \in 1..WayLen /\ Way[OwnEnd + 1] = Item(toDevice[1])
          /\ toDevice[1] \in Packets
      BY <2>1, <2>2, PacketPlaces
    <3>2. Topic(toDevice[1]) # "hello"
      BY <3>1, FrameItems DEF Topic
    <3>3. OwnEnd + 1 \in 2..WayLen
      BY <1>1, <3>1
    <3> QED  BY <1>2, <3>1, <3>2, <3>3 DEF Item
  <2> QED  BY <2>1, <2>2
<1> QED  BY <1>2, <1>3

(* The responses left when the authenticator has taken one come after it.  *)
LEMMA LeftPlaces ==
    ASSUME EapTypeOK, ServerReceives, NEW f \in Answers'
    PROVE  \E i \in 2..WayLen : Way[i] = Item(f)
<1>1. /\ SentEnd \in Nat /\ BuiltEnd \in Nat /\ OwnEnd \in Nat
      /\ SentEnd <= BuiltEnd /\ BuiltEnd <= OwnEnd /\ OwnEnd <= WayLen
      /\ WayLen \in Nat
      /\ \A j \in 1..WayLen : Way[j] = Item(Place(j))
  BY WayTypes DEF ItemsOf
<1>2. /\ toServer \in Seq(Replies) /\ Len(toServer) \in Nat /\ SentEnd = Len(toServer)
      /\ SentEnd >= 1 /\ toServer' = Tail(toServer) /\ UNCHANGED <<rx, frame>>
  BY DEF EapTypeOK, SupplicantTypeOK, SentEnd, ServerReceives
<1>3. CASE \E i \in DOMAIN toServer' : f = toServer'[i]
  <2>1. PICK i \in DOMAIN toServer' : f = toServer'[i]
    BY <1>3
  <2>2. i + 1 \in 2..SentEnd /\ f = toServer[i + 1]
    BY <1>2, <2>1
  <2>3. i + 1 \in 2..WayLen /\ Place(i + 1) = f
    BY <1>1, <2>2 DEF Place
  <2> QED  BY <1>1, <2>3
<1>4. CASE rx = "built" /\ f = frame
  <2>1. BuiltEnd = SentEnd + 1
    BY <1>4 DEF BuiltEnd
  <2>2. Place(BuiltEnd) = f
    BY <1>1, <1>4, <2>1 DEF Place
  <2>3. BuiltEnd \in 2..WayLen /\ Way[BuiltEnd] = Item(f)
    BY <1>1, <1>2, <2>1, <2>2
  <2> QED  BY <2>3
<1> QED  BY <1>2, <1>3, <1>4 DEF Answers

(* A request for data the device receives is the outstanding one, and no   *)
(* answer to an earlier one is under way.                                  *)
LEMMA DataAlone ==
    ASSUME EapTypeOK, LineOK, RequestOK, Phase = "Data", toDevice # <<>>
    PROVE  /\ toDevice = <<request>>
           /\ \A f \in Answers : Topic(f) = "hello"
<1>1. /\ toDevice \in Seq(Packets) /\ Len(toDevice) \in Nat /\ Len(toDevice) >= 1
      /\ OwnEnd \in Nat /\ WayLen = OwnEnd + Len(toDevice) /\ WayLen \in Nat
  BY WayTypes DEF EapTypeOK, WayLen
<1>2. ASSUME NEW i \in 1..Len(toDevice) PROVE Way[OwnEnd + i].topic = "data"
  <2>1. /\ OwnEnd + i \in 1..WayLen /\ Way[OwnEnd + i] = Item(toDevice[i])
        /\ toDevice[i] \in Packets
    BY PacketPlaces
  <2>2. Topic(toDevice[i]) # "hello"
    BY <2>1, FrameItems DEF Topic
  <2> QED  BY <2>1, <2>2 DEF LineOK, Line, DataLine, Item
<1>3. ASSUME NEW i \in 1..WayLen, NEW j \in 1..WayLen, i < j, Way[j].topic = "data"
      PROVE  Way[i].topic = "hello"
  BY <1>3 DEF LineOK, Line, Apart
<1>4. Len(toDevice) = 1
  <2>1. ASSUME Len(toDevice) >= 2 PROVE FALSE
    <3>1. Way[OwnEnd + 1].topic = "data" /\ Way[OwnEnd + 2].topic = "data"
      BY <1>1, <1>2, <2>1
    <3> QED  BY <1>1, <1>3, <2>1, <3>1
  <2>2. Len(toDevice) \in Nat /\ Len(toDevice) >= 1
    BY <1>1
  <2> QED  BY <2>1, <2>2
<1>5. ASSUME NEW f \in Answers PROVE Topic(f) = "hello"
  <2>1. PICK i \in 1..OwnEnd : Way[i] = Item(f)
    BY AnswerPlaces
  <2>2. Way[OwnEnd + 1].topic = "data"
    BY <1>1, <1>2
  <2> QED  BY <1>1, <1>3, <2>1, <2>2 DEF Item
<1>6. toDevice[Len(toDevice)] = request
  BY <1>1 DEF RequestOK, Phase
<1> QED  BY <1>1, <1>4, <1>5, <1>6

(* A TLS Start the device receives has no ClientHello before it. *)
LEMMA StartAlone ==
    ASSUME EapTypeOK, LineOK, toDevice # <<>>, Head(toDevice).kind = "Start"
    PROVE  /\ Phase # "Data"
           /\ \A f \in Answers : f.kind # "ClientHello"
<1>1. /\ OwnEnd + 1 \in 1..WayLen /\ Way[OwnEnd + 1] = Item(Head(toDevice))
      /\ OwnEnd \in Nat /\ WayLen \in Nat
  <2>1. toDevice \in Seq(Packets) /\ Len(toDevice) \in Nat /\ Len(toDevice) >= 1
    BY DEF EapTypeOK
  <2> QED  BY <2>1, PacketPlaces, WayTypes DEF ItemsOf
<1>2. Way[OwnEnd + 1].topic = "start"
  BY <1>1 DEF Item, Topic
<1>3. Phase # "Data"
  BY <1>1, <1>2 DEF LineOK, Line, DataLine
<1>4. ASSUME NEW f \in Answers, f.kind = "ClientHello" PROVE FALSE
  <2>1. PICK i \in 1..OwnEnd : Way[i] = Item(f)
    BY AnswerPlaces
  <2>2. Way[i].topic = "start" /\ i \in 1..WayLen /\ i < OwnEnd + 1
    BY <1>1, <1>4, <2>1 DEF Item, Topic
  <2> QED  BY <1>1, <1>2, <2>2 DEF LineOK, Line, Apart
<1> QED  BY <1>3, <1>4

-----------------------------------------------------------------------------
(* Both sides mean the same handshake. *)

(* What the handler does to the engine and the buffers, and what it        *)
(* answers.                                                                *)
LEMMA HandlerEngine ==
    ASSUME EapTypeOK, EngineOK, NEW p \in Packets, eap_frame_handler(p)
    PROVE  /\ p.kind # "Start" => engine'.hs = engine.hs
           /\ Answers' \subseteq Answers \cup {frame'}
           /\ \A f \in Answers' : f \in Answers \/ (f = frame' /\ frame'.hs = engine'.hs)
<1>1. toServer' = toServer /\ rx = "idle"
  BY DEF eap_frame_handler
<1>2. UNCHANGED <<frame, rx>> \/ frame'.hs = engine'.hs
  BY DEF eap_frame_handler, HandleIdentity, StartAnswered, StartOverflows,
         DataOverflows, DataStored, DataProcessed, HandleSuccess, HandleFailure,
         Respond, Silent
<1>3. p.kind # "Start" => engine'.hs = engine.hs
  <2>1. engine \in [hs : 0..(Epochs - 1), eaten : 0..Broken]
    BY DEF EapTypeOK, SupplicantTypeOK
  <2> QED
    BY <2>1 DEF eap_frame_handler, HandleIdentity, StartAnswered, StartOverflows,
         DataOverflows, DataStored, DataProcessed, HandleSuccess, HandleFailure,
         tlsVars
<1> QED  BY <1>1, <1>2, <1>3 DEF Answers

LEMMA SameHandshakeServer ==
    ASSUME EapTypeOK, LineOK, RequestOK, SameHandshake, ServerReceives
    PROVE  SameHandshake'
<1> DEFINE r == Head(toServer)
<1>1. /\ r \in Replies /\ toServer # <<>> /\ r \in Answers
      /\ toDevice \in Seq(Packets) /\ request \in Packets \cup {Nil}
      /\ UNCHANGED engine
  BY QueueTail DEF EapTypeOK, SupplicantTypeOK, ServerReceives, Answers, tlsVars
<1>2. \A f \in Answers' : f \in Answers \/ f = EapolStart
  <2>1. ~DeviceReceives
    BY <1>1 DEF ServerReceives, DeviceReceives, eap_frame_handler
  <2> QED  BY <2>1, AnswersStep DEF EapNext
<1>3. CASE UNCHANGED authVars
  BY <1>1, <1>2, <1>3 DEF authVars, SameHandshake, Phase, EapolStart
<1>4. ASSUME NEW p, toDevice' = Append(toDevice, p), p.kind # "Data",
             request' = Nil \/ request'.kind = "Identity"
      PROVE  SameHandshake'
  <2>1. \A i \in DOMAIN toDevice' : toDevice'[i].kind = "Data" =>
           i \in DOMAIN toDevice /\ toDevice'[i] = toDevice[i]
    BY <1>1, <1>4
  <2>2. Phase' \in {"None", "Identity"}
    BY <1>4 DEF Phase
  <2> QED  BY <1>1, <2>1, <2>2 DEF SameHandshake
<1>5. CASE Ask(Packet("Identity", 0, 0))
  BY <1>4, <1>5 DEF Ask, Packet
<1>6. CASE Finish("Success") \/ Finish("Failure")
  BY <1>4, <1>6 DEF Finish, Packet
<1>7. CASE /\ request # Nil /\ r.id = eap_id /\ Following(r) # Nil
           /\ Ask(Following(r))
  <2>1. /\ request' = Following(r) /\ toDevice' = Append(toDevice, Following(r))
        /\ Phase = request.kind /\ Following(r) \in Packets /\ Following(r) # Nil
    BY <1>1, <1>7, FollowingTypes DEF Ask, Phase, EapTypeOK, AuthTypes
  <2>2. CASE Phase = "Identity" /\ r.kind = "Identity" /\ Following(r) = Packet("Start", 0, 0)
    <3>1. \A i \in DOMAIN toDevice' : toDevice'[i].kind = "Data" =>
             i \in DOMAIN toDevice /\ toDevice'[i] = toDevice[i]
      BY <1>1, <2>1, <2>2 DEF Packet
    <3>2. Phase' = "Start"
      BY <2>1, <2>2 DEF Phase, Packet
    <3>3. ASSUME NEW f \in Answers', f.kind = "ClientHello" PROVE FALSE
      <4>1. PICK i \in 2..WayLen : Way[i] = Item(f)
        BY LeftPlaces
      <4>2. Way[i].topic = "start"
        BY <3>3, <4>1 DEF Item, Topic
      <4>3. /\ 1 \in 1..WayLen /\ 1 < i /\ i \in 1..WayLen
            /\ Way[1].topic = "identity" /\ Way[1].id = eap_id
        BY <1>1, <1>7, <2>2, <4>1, WayTaken DEF ServerReceives, Item, Topic
      <4> QED  BY <2>2, <4>2, <4>3 DEF LineOK, Line, IdentityLine
    <3> QED  BY <1>1, <3>1, <3>2, <3>3 DEF SameHandshake
  <2>3. CASE /\ \/ Phase = "Start" /\ r.kind = "ClientHello"
                \/ Phase = "Data" /\ r.kind \in {"Ack", "Flight2"}
             /\ Following(r).kind = "Data" /\ Following(r).hs = engine.hs
    <3>1. toDevice = <<>>
      BY <1>1, <1>7, <2>3, TakenAlone DEF Topic
    <3>2. toDevice' = <<Following(r)>> /\ Phase' = "Data" /\ request'.hs = engine.hs
      BY <2>1, <2>3, <3>1 DEF Phase
    <3> QED  BY <1>1, <2>3, <3>2 DEF SameHandshake
  <2>4. \/ Phase = "Identity" /\ r.kind = "Identity" /\ Following(r) = Packet("Start", 0, 0)
        \/ /\ \/ Phase = "Start" /\ r.kind = "ClientHello"
              \/ Phase = "Data" /\ r.kind \in {"Ack", "Flight2"}
           /\ Following(r).kind = "Data" /\ Following(r).hs = engine.hs
    BY <1>1, <1>7, <2>1, FollowingCases DEF SameHandshake, Packet
  <2> QED  BY <2>2, <2>3, <2>4
<1> QED  BY <1>3, <1>5, <1>6, <1>7 DEF ServerReceives

LEMMA SameHandshakeReceive ==
    ASSUME EapTypeOK, LineOK, RequestOK, EngineOK, SameHandshake, DeviceReceives
    PROVE  SameHandshake'
<1> DEFINE p == Head(toDevice)
<1>1. /\ p \in Packets /\ toDevice # <<>> /\ toDevice \in Seq(Packets)
      /\ toDevice' = Tail(toDevice) /\ Phase' = Phase /\ request' = request
      /\ eap_frame_handler(p)
  BY QueueTail DEF EapTypeOK, DeviceReceives, Phase
<1>2. \A i \in DOMAIN toDevice' : toDevice'[i].kind # "Data"
  BY <1>1 DEF SameHandshake
<1>3. /\ p.kind # "Start" => engine'.hs = engine.hs
      /\ \A f \in Answers' : f \in Answers \/ (f = frame' /\ frame'.hs = engine'.hs)
  BY <1>1, HandlerEngine
<1>4. Phase = "Data" => p.kind = "Data"
  BY <1>1, DataAlone DEF Phase
<1>5. p.kind = "Start" => \A f \in Answers : f.kind # "ClientHello"
  BY <1>1, StartAlone
<1> QED  BY <1>1, <1>2, <1>3, <1>4, <1>5 DEF SameHandshake

LEMMA SameHandshakeStep ==
    ASSUME EapTypeOK, LineOK, RequestOK, EngineOK, SameHandshake,
           [EapNext]_eapVars
    PROVE  SameHandshake'
<1>0. toDevice \in Seq(Packets) /\ request \in Packets \cup {Nil}
  BY DEF EapTypeOK
<1>1. ASSUME UNCHANGED <<engine, request>>, ~DeviceReceives,
             \/ UNCHANGED toDevice
             \/ toDevice # <<>> /\ toDevice' = Tail(toDevice)
             \/ request # Nil /\ toDevice' = <<request>>
      PROVE  SameHandshake'
  <2>1. \A f \in Answers' : f \in Answers \/ f.kind = "EapolStart"
    BY <1>1, AnswersStep DEF EapolStart
  <2>2. Phase' = Phase /\ request' = request /\ engine' = engine
    BY <1>1 DEF Phase
  <2>3. \A i \in DOMAIN toDevice' : toDevice'[i].kind = "Data" =>
           i = 1 /\ toDevice'[i].hs = engine.hs
    <3>1. CASE UNCHANGED toDevice
      BY <3>1 DEF SameHandshake
    <3>2. CASE toDevice # <<>> /\ toDevice' = Tail(toDevice)
      BY <1>0, <3>2 DEF SameHandshake
    <3>3. CASE request # Nil /\ toDevice' = <<request>>
      BY <3>3 DEF SameHandshake, Phase
    <3> QED  BY <1>1, <3>1, <3>2, <3>3
  <2> QED  BY <2>1, <2>2, <2>3 DEF SameHandshake
<1>2. ASSUME UNCHANGED engine, toDevice = <<>> \/ toDevice' = <<>>,
             NEW p, p.kind # "Data", toDevice' \in {<<>>, <<p>>},
             request' = Nil \/ request'.kind = "Identity"
      PROVE  SameHandshake'
  <2>1. Phase' \in {"None", "Identity"}
    BY <1>2 DEF Phase
  <2> QED  BY <1>2, <2>1 DEF SameHandshake
<1>3. CASE ServerReceives
  BY <1>3, SameHandshakeServer
<1>4. CASE DeviceReceives
  BY <1>4, SameHandshakeReceive
<1>5. CASE Initiate
  BY <1>2, <1>5 DEF Initiate, Ask, Packet, supplicantVars
<1>6. CASE GiveUp
  BY <1>2, <1>6 DEF GiveUp, Finish, Packet, supplicantVars, Quiescent
<1>7. CASE DeviceRestarts \/ LinkLost
  <2>1. request' = Nil /\ toDevice' = <<>>
    BY <1>7 DEF DeviceRestarts, LinkLost, NewSession
  <2>2. Phase' = "None"
    BY <2>1 DEF Phase
  <2> QED  BY <2>1, <2>2 DEF SameHandshake
<1>8. CASE (Retransmit \/ FrameLost \/ DeviceTransmits \/ MainRuns \/ LinkStep
            \/ UNCHANGED eapVars) /\ ~DeviceReceives
  BY <1>1, <1>8
  DEF Retransmit, FrameLost, DeviceTransmits, MainRuns, LinkStep, RxTransmit,
      MainStep, TlsInit, StartAllowed, BuildStart, TransmitStart, StoreStart,
      supplicantVars, authVars, tlsVars, eapVars
<1> QED  BY <1>3, <1>4, <1>5, <1>6, <1>7, <1>8 DEF EapNext

-----------------------------------------------------------------------------
(* The engine. *)

(* The next handshake is another one. *)
LEMMA NextHandshake ==
    ASSUME NEW hs \in 0..(Epochs - 1)
    PROVE  (hs + 1) % Epochs # hs
<1>1. Epochs \in Nat /\ Epochs >= 2
  BY SupplicantAssumption
<1>2. CASE hs = Epochs - 1
  BY <1>1, <1>2
<1>3. CASE hs # Epochs - 1
  BY <1>1, <1>3
<1> QED  BY <1>2, <1>3

LEMMA CurrentInputStep ==
    ASSUME EapTypeOK, EngineOK, SameHandshake, CurrentInput, [EapNext]_eapVars
    PROVE  CurrentInput'
<1>1. CASE UNCHANGED tlsVars
  BY <1>1 DEF tlsVars, CurrentInput
<1>2. CASE DeviceRestarts
  BY <1>2 DEF DeviceRestarts, SupplicantRestart, CurrentInput
<1>3. CASE DeviceReceives
  <2> DEFINE p == Head(toDevice)
  <2>1. /\ p \in Packets /\ eap_frame_handler(p)
        /\ s_tls_in \in Seq(Chunks) /\ Len(s_tls_in) \in Nat
        /\ p.kind = "Data" => p.hs = engine.hs
    BY <1>3, QueueTail
    DEF EapTypeOK, SupplicantTypeOK, DeviceReceives, SameHandshake
  <2>2. CASE HandleIdentity(p) \/ HandleSuccess(p) \/ HandleFailure(p)
    BY <1>1, <2>2 DEF HandleIdentity, HandleSuccess, HandleFailure
  <2>3. CASE StartAnswered(p) \/ StartOverflows(p) \/ DataOverflows(p)
    BY <2>3 DEF StartAnswered, StartOverflows, DataOverflows, CurrentInput
  <2>4. CASE DataStored(p)
    <3>1. /\ s_tls_in' = Append(s_tls_in, Chunk(p)) /\ engine' = engine
          /\ Chunk(p).hs = engine.hs
      BY <2>1, <2>4 DEF DataStored, Chunk
    <3> QED  BY <2>1, <3>1 DEF CurrentInput
  <2>5. CASE DataProcessed(p)
    <3> DEFINE input == Append(s_tls_in, Chunk(p))
    <3>1. engine'.hs = engine.hs
      <4>1. engine \in [hs : 0..(Epochs - 1), eaten : 0..Broken]
        BY DEF EapTypeOK, SupplicantTypeOK
      <4> QED  BY <2>5, <4>1 DEF DataProcessed
    <3>2. input \in Seq(Chunks) /\ \A i \in DOMAIN input : input[i].hs = engine.hs
      <4>1. Chunk(p) \in Chunks /\ Chunk(p).hs = engine.hs
        BY <2>1, <2>5 DEF DataProcessed, Chunk, Chunks, Packets
      <4> HIDE DEF p
      <4> QED  BY <2>1, <4>1 DEF CurrentInput
    <3>3. PICK r \in Handshake(engine.hs, engine.eaten, send_buf, input) :
             s_tls_in' = <<>> \/ s_tls_in' = r.left
      BY <2>5 DEF DataProcessed
    <3> HIDE DEF input
    <3>4. s_tls_in' = <<>> \/ s_tls_in' \in Suffixes(input)
      BY <3>3, HandshakeCases
    <3>5. \A i \in DOMAIN s_tls_in' : s_tls_in'[i].hs = engine.hs
      BY <3>2, <3>4, SuffixTypes
    <3> QED  BY <3>1, <3>5 DEF CurrentInput
  <2> QED  BY <2>1, <2>2, <2>3, <2>4, <2>5 DEF eap_frame_handler
<1> QED
  BY <1>1, <1>2, <1>3
  DEF EapNext, ServerReceives, Initiate, Retransmit, GiveUp, DeviceTransmits,
      MainRuns, MainStep, RxTransmit, TlsInit, StartAllowed, BuildStart,
      TransmitStart, StoreStart, LinkLost, LinkStep, FrameLost, supplicantVars,
      eapVars, tlsVars

(* Of stale input the engine of a new handshake breaks. *)
LEMMA StartEngine ==
    ASSUME EapTypeOK, CurrentInput, NEW r \in StartResult
    PROVE  /\ r.eaten = Broken \/ (r.eaten = 0 /\ r.ret = "WANT_READ")
           /\ r.eaten = Broken => r.buf \in {"ClientHello", "Alert"}
<1>1. /\ s_tls_in \in Seq(Chunks) /\ Len(s_tls_in) \in Nat
      /\ engine.hs \in 0..(Epochs - 1)
      /\ Over = FlightParts + 1 /\ FlightParts \in Nat
  BY Numbers DEF EapTypeOK, SupplicantTypeOK
<1>2. Follows((engine.hs + 1) % Epochs, 0, s_tls_in) => s_tls_in = <<>>
  <2>1. s_tls_in # <<>> => 1 \in DOMAIN s_tls_in
    BY <1>1
  <2>2. (engine.hs + 1) % Epochs # engine.hs
    BY <1>1, NextHandshake
  <2> QED  BY <2>1, <2>2 DEF Follows, CurrentInput
<1>3. Over # 0
  BY <1>1
<1> QED  BY <1>1, <1>2, <1>3, HandshakeCases DEF StartResult

(* What data does to an engine in KEY_EXCHANGE: it has eaten the whole     *)
(* first flight and answers it, or it is broken.                           *)
LEMMA KeyExchangeEngine ==
    ASSUME EapTypeOK, EngineOK, s_state = "KEY_EXCHANGE",
           NEW p \in Packets, p.kind = "Data", ~IsFragment(p),
           NEW r \in Handshake(engine.hs, engine.eaten, send_buf,
                              Append(s_tls_in, Chunk(p)))
    PROVE  \/ /\ r.eaten = FlightParts /\ r.buf = "Flight2"
              /\ r.ret = "WANT_READ"
           \/ r.eaten = Broken /\ r.buf \in {Nil, "Alert"}
<1> DEFINE input == Append(s_tls_in, Chunk(p))
<1>1. /\ s_tls_in \in Seq(Chunks) /\ Len(s_tls_in) \in Nat
      /\ engine.eaten \in 0..Broken
      /\ FlightParts \in Nat \ {0} /\ Over = FlightParts + 1 /\ Broken = FlightParts + 2
      /\ p.part \in 0..Over /\ p.part >= FlightParts
  <2>1. /\ s_tls_in \in Seq(Chunks) /\ Len(s_tls_in) \in Nat
        /\ engine.eaten \in 0..Broken
    BY DEF EapTypeOK, SupplicantTypeOK
  <2>2. p.part \in 0..Over
    BY DEF Packets
  <2> QED  BY <2>1, <2>2, Numbers DEF IsFragment
<1>2. /\ Len(input) = Len(s_tls_in) + 1 /\ DOMAIN input = 1..Len(input)
      /\ input[Len(input)].part = p.part
      /\ \A i \in 1..Len(s_tls_in) : input[i] = s_tls_in[i]
  BY <1>1 DEF Chunk
<1> HIDE DEF input
<1>3. send_buf = Nil \/ (send_buf = "Alert" /\ engine.eaten = Broken)
  BY DEF EngineOK
<1>4. ASSUME Follows(engine.hs, engine.eaten, input)
      PROVE  engine.eaten = 0 /\ Len(input) = FlightParts
  <2>1. engine.eaten + Len(input) <= Over
        /\ input[Len(input)] = [hs |-> engine.hs, part |-> engine.eaten + Len(input)]
    BY <1>1, <1>2, <1>4 DEF Follows
  <2>2. engine.eaten = 0 /\ \A i \in 1..Len(s_tls_in) : s_tls_in[i].part < FlightParts
    BY <1>1, <1>2, <2>1 DEF EngineOK
  <2>3. Len(input) = p.part
    BY <1>1, <1>2, <2>1, <2>2
  <2>4. ASSUME Len(input) = Over PROVE FALSE
    <3>1. FlightParts \in 1..Len(s_tls_in) /\ FlightParts \in DOMAIN input
      BY <1>1, <1>2, <2>4
    <3>2. input[FlightParts].part = FlightParts
      BY <1>1, <1>4, <2>2, <3>1 DEF Follows
    <3> QED  BY <1>1, <1>2, <2>2, <3>1, <3>2
  <2> QED  BY <1>1, <2>1, <2>2, <2>3, <2>4
<1>5. r \in Handshake(engine.hs, engine.eaten, send_buf, input)
  BY DEF input
<1>6. CASE r.eaten = Broken
  BY <1>1, <1>3, <1>4, <1>5, <1>6, HandshakeCases
<1>7. CASE r.eaten # Broken
  BY <1>1, <1>4, <1>5, <1>7, HandshakeCases
<1> QED  BY <1>6, <1>7

(* And in CHANGE_CIPHER_SPEC: an intact engine takes the last flight for   *)
(* good, and says nothing.                                                 *)
LEMMA LastFlightEngine ==
    ASSUME EapTypeOK, EngineOK, s_state = "CHANGE_CIPHER_SPEC",
           NEW p \in Packets, p.kind = "Data",
           NEW r \in Handshake(engine.hs, engine.eaten, send_buf,
                              Append(s_tls_in, Chunk(p)))
    PROVE  /\ \/ r.eaten = Over /\ r.ret = "ERROR" /\ r.buf = Nil
              \/ r.eaten = Broken /\ r.buf \in {Nil, "Alert"}
           /\ engine.eaten = FlightParts /\ p.part = Over /\ p.hs = engine.hs
                 => r.eaten = Over
<1>1. /\ FlightParts \in Nat \ {0} /\ Over = FlightParts + 1 /\ Broken = FlightParts + 2
      /\ engine.eaten \in {FlightParts, Broken}
      /\ send_buf = Nil \/ (send_buf = "Alert" /\ engine.eaten = Broken)
  BY Numbers DEF EngineOK
<1>2. Append(s_tls_in, Chunk(p)) = <<Chunk(p)>>
  BY DEF EngineOK
<1>3. /\ Len(<<Chunk(p)>>) = 1 /\ DOMAIN <<Chunk(p)>> = {1}
      /\ <<Chunk(p)>>[1] = [hs |-> p.hs, part |-> p.part]
  BY DEF Chunk
<1>4. Follows(engine.hs, engine.eaten, <<Chunk(p)>>)
         <=> /\ engine.eaten + 1 <= Over
             /\ p.hs = engine.hs /\ p.part = engine.eaten + 1
  <2>1. Follows(engine.hs, engine.eaten, <<Chunk(p)>>)
           <=> /\ engine.eaten + 1 <= Over
               /\ <<Chunk(p)>>[1] = [hs |-> engine.hs, part |-> engine.eaten + 1]
    BY <1>3 DEF Follows
  <2>2. [hs |-> p.hs, part |-> p.part] = [hs |-> engine.hs, part |-> engine.eaten + 1]
           <=> p.hs = engine.hs /\ p.part = engine.eaten + 1
    OBVIOUS
  <2> QED  BY <1>3, <2>1, <2>2
<1>5. r \in Handshake(engine.hs, engine.eaten, send_buf, <<Chunk(p)>>)
  BY <1>2
<1>6. CASE r.eaten = Broken
  <2>1. r.buf \in {Nil, "Alert"}
    BY <1>1, <1>3, <1>4, <1>5, <1>6, HandshakeCases
  <2>2. ~(engine.eaten = FlightParts /\ p.part = Over /\ p.hs = engine.hs)
    BY <1>1, <1>3, <1>4, <1>5, <1>6 DEF Handshake
  <2> QED  BY <1>6, <2>1, <2>2
<1>7. CASE r.eaten # Broken
  <2>1. /\ engine.eaten + 1 <= Over /\ r.eaten = engine.eaten + 1
        /\ r.buf = IF engine.eaten < FlightParts /\ FlightParts <= r.eaten
                   THEN "Flight2" ELSE send_buf
        /\ r.ret = IF r.eaten = Over THEN "ERROR" ELSE "WANT_READ"
    <3> DEFINE input == <<Chunk(p)>>
    <3>1. r \in Handshake(engine.hs, engine.eaten, send_buf, input)
      BY <1>5
    <3> HIDE DEF input
    <3>2. /\ Follows(engine.hs, engine.eaten, input)
          /\ r.eaten = engine.eaten + Len(input)
          /\ r.buf = IF engine.eaten < FlightParts /\ FlightParts <= r.eaten
                     THEN "Flight2" ELSE send_buf
          /\ r.ret = IF r.eaten = Over THEN "ERROR" ELSE "WANT_READ"
      BY <1>7, <3>1, HandshakeCases
    <3> QED  BY <1>3, <1>4, <3>2 DEF input
  <2>2. engine.eaten = FlightParts /\ r.eaten = Over
    BY <1>1, <2>1
  <2> QED  BY <1>1, <2>1, <2>2
<1> QED  BY <1>6, <1>7

LEMMA EngineStep ==
    ASSUME EapTypeOK, EngineOK, CurrentInput, [EapNext]_eapVars
    PROVE  EngineOK'
<1>0. /\ engine \in [hs : 0..(Epochs - 1), eaten : 0..Broken]
      /\ s_tls_in \in Seq(Chunks) /\ Len(s_tls_in) \in Nat
      /\ FlightParts \in Nat \ {0} /\ Over = FlightParts + 1 /\ Broken = FlightParts + 2
  BY Numbers DEF EapTypeOK, SupplicantTypeOK
<1>1. CASE UNCHANGED <<s_state, tlsVars>>
  BY <1>1 DEF tlsVars, EngineOK
<1>2. CASE UNCHANGED tlsVars /\ s_state' \notin {"KEY_EXCHANGE", "CHANGE_CIPHER_SPEC"}
  BY <1>2 DEF tlsVars, EngineOK
<1>3. CASE DeviceRestarts
  BY <1>3 DEF DeviceRestarts, SupplicantRestart, EngineOK
<1>4. CASE DeviceReceives
  <2> DEFINE p == Head(toDevice)
  <2>1. p \in Packets /\ eap_frame_handler(p)
    BY <1>4, QueueTail DEF EapTypeOK, DeviceReceives
  <2>2. CASE HandleIdentity(p) \/ HandleSuccess(p) \/ HandleFailure(p)
    BY <1>2, <2>2 DEF HandleIdentity, HandleSuccess, HandleFailure
  <2>3. CASE StartOverflows(p) \/ DataOverflows(p)
    BY <2>3 DEF StartOverflows, DataOverflows, EngineOK
  <2>4. CASE StartAnswered(p)
    <3>1. PICK r \in StartResult :
             engine' = [hs |-> (engine.hs + 1) % Epochs, eaten |-> r.eaten]
      BY <2>4 DEF StartAnswered
    <3>2. engine'.eaten \in {0, Broken}
      BY <3>1, StartEngine
    <3> QED  BY <2>4, <3>2 DEF StartAnswered, EngineOK
  <2>5. CASE DataStored(p)
    <3>1. /\ s_tls_in' = Append(s_tls_in, Chunk(p)) /\ Chunk(p).part = p.part
          /\ UNCHANGED <<s_state, send_buf, engine>> /\ s_state # "CHANGE_CIPHER_SPEC"
          /\ s_state = "KEY_EXCHANGE" => p.part < FlightParts
      BY <2>5 DEF DataStored, IsFragment, Chunk
    <3> QED  BY <1>0, <3>1 DEF EngineOK
  <2>6. CASE DataProcessed(p)
    <3>1. PICK r \in Handshake(engine.hs, engine.eaten, send_buf,
                              Append(s_tls_in, Chunk(p))) :
             /\ engine' = [engine EXCEPT !.eaten = r.eaten]
             /\ IF r.ret = "WANT_READ" /\ r.buf # Nil
                THEN /\ s_tls_in' = <<>>
                     /\ send_buf' = Nil
                     /\ s_state' = "CHANGE_CIPHER_SPEC"
                ELSE /\ s_tls_in' = r.left
                     /\ send_buf' = r.buf
                     /\ s_state' = IF s_state = "KEY_EXCHANGE"
                                   THEN "KEY_EXCHANGE" ELSE "AUTHENTICATED"
      BY <2>6 DEF DataProcessed
    <3>2. engine'.eaten = r.eaten /\ p.kind = "Data"
      BY <1>0, <2>6, <3>1 DEF DataProcessed
    <3>3. CASE s_state = "KEY_EXCHANGE"
      <4>1. \/ r.eaten = FlightParts /\ r.buf = "Flight2" /\ r.ret = "WANT_READ"
            \/ r.eaten = Broken /\ r.buf \in {Nil, "Alert"}
        BY <2>1, <2>6, <3>3, KeyExchangeEngine DEF DataProcessed
      <4>2. Nil # "Flight2"
        BY NilAssumption
      <4> QED  BY <1>0, <3>1, <3>2, <3>3, <4>1, <4>2 DEF EngineOK
    <3>4. CASE s_state = "CHANGE_CIPHER_SPEC"
      <4>1. \/ r.eaten = Over /\ r.ret = "ERROR" /\ r.buf = Nil
            \/ r.eaten = Broken /\ r.buf \in {Nil, "Alert"}
        BY <2>1, <2>6, <3>4, LastFlightEngine DEF DataProcessed
      <4> QED  BY <1>0, <3>1, <3>2, <3>4, <4>1 DEF EngineOK
    <3> QED  BY <2>6, <3>3, <3>4 DEF DataProcessed
  <2> QED
    BY <2>1, <2>2, <2>3, <2>4, <2>5, <2>6 DEF eap_frame_handler
<1> QED
  BY <1>1, <1>2, <1>3, <1>4
  DEF EapNext, ServerReceives, Initiate, Retransmit, GiveUp, DeviceTransmits,
      MainRuns, MainStep, RxTransmit, TlsInit, StartAllowed, BuildStart,
      TransmitStart, StoreStart, LinkLost, LinkStep, FrameLost, supplicantVars,
      eapVars, tlsVars

-----------------------------------------------------------------------------
(* The last flight of the server. *)

LEMMA LastFlightServer ==
    ASSUME EapTypeOK, LineOK, RequestOK, LastFlightOK, ServerReceives
    PROVE  LastFlightOK'
<1> DEFINE r == Head(toServer)
<1>1. /\ r \in Replies /\ toServer # <<>> /\ r \in Answers
      /\ toDevice \in Seq(Packets) /\ request \in Packets \cup {Nil}
      /\ UNCHANGED <<engine, s_state>>
      /\ FlightParts \in Nat \ {0} /\ Over = FlightParts + 1
  BY QueueTail, Numbers
  DEF EapTypeOK, SupplicantTypeOK, ServerReceives, Answers, tlsVars
<1>2. \A f \in Answers' : f \in Answers \/ f = EapolStart
  <2>1. ~DeviceReceives
    BY <1>1 DEF ServerReceives, DeviceReceives, eap_frame_handler
  <2> QED  BY <2>1, AnswersStep DEF EapNext
<1>3. CASE UNCHANGED authVars
  BY <1>1, <1>2, <1>3 DEF authVars, LastFlightOK, Phase, EapolStart
<1>4. ASSUME NEW p, toDevice' = Append(toDevice, p), p.kind # "Success",
             Phase' # "Data"
      PROVE  LastFlightOK'
  <2>1. \A i \in DOMAIN toDevice' : toDevice'[i].kind = "Success" =>
           i \in DOMAIN toDevice /\ toDevice'[i] = toDevice[i]
    BY <1>1, <1>4
  <2> QED  BY <1>1, <1>4, <2>1 DEF LastFlightOK
<1>5. CASE Ask(Packet("Identity", 0, 0))
  BY <1>4, <1>5 DEF Ask, Packet, Phase
<1>6. CASE Finish("Failure")
  BY <1>4, <1>6 DEF Finish, Packet, Phase
<1>7. CASE /\ request # Nil /\ r.id = eap_id /\ Finishes(r)
           /\ Finish("Success")
  <2>1. Phase = "Data" /\ request.part = Over /\ r.kind = "Ack"
    BY <1>7 DEF Finishes, Phase
  <2>2. engine.eaten = Over
    BY <1>1, <2>1 DEF LastFlightOK
  <2>3. toDevice = <<>>
    BY <1>1, <1>7, <2>1, TakenAlone DEF Topic
  <2>4. Phase' = "None" /\ Len(toDevice') = 1 /\ DOMAIN toDevice' = {1}
    BY <1>7, <2>3 DEF Finish, Phase
  <2> QED  BY <1>1, <2>2, <2>4 DEF LastFlightOK
<1>8. CASE /\ request # Nil /\ r.id = eap_id /\ Following(r) # Nil
           /\ Ask(Following(r))
  <2>1. /\ request' = Following(r) /\ toDevice' = Append(toDevice, Following(r))
        /\ Phase = request.kind /\ Phase' = Following(r).kind
        /\ Following(r).kind # "Success"
    BY <1>1, <1>8, FollowingCases DEF Ask, Phase, Packet
  <2>2. CASE Phase = "Identity"
    BY <1>4, <1>8, <2>1, <2>2, FollowingCases DEF Packet
  <2>3. CASE \/ Phase = "Start" /\ r.kind = "ClientHello"
             \/ Phase = "Data" /\ r.kind \in {"Ack", "Flight2"}
    <3>1. toDevice = <<>> /\ \A i \in 2..WayLen : Way[i].topic = "hello"
      BY <1>1, <1>8, <2>3, TakenAlone DEF Topic
    <3>2. \A f \in Answers' : f.kind \notin {"Ack", "Flight2"}
      <4>1. ASSUME NEW f \in Answers' PROVE Topic(f) = "hello"
        <5>1. PICK i \in 2..WayLen : Way[i] = Item(f)
          BY LeftPlaces
        <5> QED  BY <3>1, <5>1 DEF Item
      <4> QED  BY <4>1 DEF Topic
    <3>3. Following(r).part = Over =>
             engine.eaten = FlightParts /\ s_state \in {"CHANGE_CIPHER_SPEC", "START"}
      <4>1. Following(r).part = Over => Phase = "Data" /\ r.kind = "Flight2"
        <5>1. request.part \in 0..Over
          BY <1>1, <1>8 DEF Packets
        <5>2. 0 # Over /\ 1 # Over /\ (request.part < FlightParts => request.part + 1 # Over)
          BY <1>1, <5>1
        <5> QED  BY <1>8, <2>1, <5>2, FollowingCases DEF Packet
      <4> QED  BY <1>1, <4>1 DEF LastFlightOK
    <3>4. DOMAIN toDevice' = {1} /\ toDevice'[1] = Following(r)
      BY <2>1, <3>1
    <3>5. FlightParts # Over
      BY <1>1
    <3> QED  BY <1>1, <2>1, <3>2, <3>3, <3>4, <3>5 DEF LastFlightOK
  <2> QED  BY <1>8, <2>1, <2>2, <2>3, FollowingCases
<1> QED  BY <1>3, <1>5, <1>6, <1>7, <1>8 DEF ServerReceives

(* The device receives the request for data that is outstanding. *)
LEMMA LastFlightReceive ==
    ASSUME EapTypeOK, LineOK, RequestOK, SameHandshake, EngineOK, EngineOK',
           LastFlightOK, DeviceReceives
    PROVE  LastFlightOK'
<1> DEFINE p == Head(toDevice)
<1>1. /\ p \in Packets /\ toDevice # <<>> /\ toDevice \in Seq(Packets)
      /\ toDevice' = Tail(toDevice) /\ Phase' = Phase /\ request' = request
      /\ eap_frame_handler(p)
  BY QueueTail DEF EapTypeOK, DeviceReceives, Phase
<1>2. \A i \in DOMAIN toDevice' : toDevice'[i].kind # "Success"
  BY <1>1 DEF LastFlightOK
<1>3. \A f \in Answers' : f \in Answers \/ f = frame'
  BY <1>1, HandlerEngine
<1>4. ASSUME Phase = "Data"
      PROVE  LastFlightOK'
  <2>1. /\ p = request /\ p.kind = "Data" /\ p.hs = engine.hs
        /\ \A f \in Answers : Topic(f) = "hello"
    BY <1>1, <1>4, DataAlone DEF SameHandshake, Phase
  <2>2. \A f \in Answers' : f.kind \in {"Ack", "Flight2"} => f = frame' /\ f \notin Answers
    BY <1>3, <2>1 DEF Topic
  <2>3. UNCHANGED <<frame, rx>> => Answers' = Answers
    BY <1>1 DEF Answers, eap_frame_handler
  <2>4. /\ engine \in [hs : 0..(Epochs - 1), eaten : 0..Broken]
        /\ FlightParts \in Nat \ {0} /\ Over = FlightParts + 1 /\ Broken = FlightParts + 2
    BY Numbers DEF EapTypeOK, SupplicantTypeOK
  <2>5. CASE DataOverflows(p)
    <3>1. Answers' = Answers /\ s_state' = "FAILED"
      BY <2>3, <2>5 DEF DataOverflows, Silent
    <3> QED  BY <1>1, <1>2, <2>2, <3>1 DEF LastFlightOK
  <2>6. CASE DataStored(p)
    <3>1. /\ UNCHANGED <<s_state, engine>> /\ s_state # "CHANGE_CIPHER_SPEC"
          /\ s_state = "KEY_EXCHANGE" => p.part < FlightParts
          /\ IF s_state \in {"KEY_EXCHANGE", "AUTHENTICATED"}
             THEN frame'.kind = "Ack" ELSE Answers' = Answers
      BY <2>3, <2>6 DEF DataStored, IsFragment, Respond, Silent
    <3>2. \A f \in Answers' : f.kind # "Flight2"
      BY <2>2, <3>1
    <3>3. request.part = Over =>
             /\ s_state \in {"AUTHENTICATED", "START", "FAILED"}
             /\ s_state = "AUTHENTICATED" => engine.eaten = Over
             /\ \A f \in Answers' : f.kind = "Ack" => engine.eaten = Over
      BY <1>4, <2>2, <3>1 DEF LastFlightOK
    <3> QED  BY <1>1, <1>2, <3>1, <3>2, <3>3 DEF LastFlightOK
  <2>7. CASE DataProcessed(p)
    <3>1. PICK r \in Handshake(engine.hs, engine.eaten, send_buf,
                              Append(s_tls_in, Chunk(p))) :
             /\ engine' = [engine EXCEPT !.eaten = r.eaten]
             /\ IF r.ret = "WANT_READ" /\ r.buf # Nil
                THEN s_state' = "CHANGE_CIPHER_SPEC" /\ Respond(p, r.buf)
                ELSE /\ s_state' = IF s_state = "KEY_EXCHANGE"
                                   THEN "KEY_EXCHANGE" ELSE "AUTHENTICATED"
                     /\ Silent
      BY <2>7 DEF DataProcessed
    <3>2. engine'.eaten = r.eaten
      BY <2>4, <3>1
    <3>3. CASE s_state = "KEY_EXCHANGE"
      <4>1. request.part # Over
        BY <1>4, <3>3 DEF LastFlightOK
      <4>2. \/ r.eaten = FlightParts /\ r.buf = "Flight2" /\ r.ret = "WANT_READ"
            \/ r.eaten = Broken /\ r.buf \in {Nil, "Alert"}
        BY <1>1, <2>1, <2>7, <3>3, KeyExchangeEngine DEF DataProcessed
      <4>3. Nil # "Flight2"
        BY NilAssumption
      <4>4. ASSUME NEW f \in Answers', f.kind = "Flight2"
            PROVE  engine'.eaten = FlightParts /\ s_state' = "CHANGE_CIPHER_SPEC"
        <5>1. ~UNCHANGED <<frame, rx>> /\ f = frame'
          BY <2>2, <2>3, <4>4
        <5>2. r.ret = "WANT_READ" /\ r.buf # Nil /\ frame'.kind = r.buf
          BY <3>1, <5>1 DEF Silent, Respond
        <5> QED  BY <3>1, <3>2, <4>2, <4>4, <5>1, <5>2
      <4> QED  BY <1>1, <1>2, <4>1, <4>4 DEF LastFlightOK
    <3>4. CASE s_state = "CHANGE_CIPHER_SPEC"
      <4>1. /\ \/ r.eaten = Over /\ r.ret = "ERROR" /\ r.buf = Nil
               \/ r.eaten = Broken /\ r.buf \in {Nil, "Alert"}
            /\ engine.eaten = FlightParts /\ p.part = Over /\ p.hs = engine.hs
                 => r.eaten = Over
        BY <1>1, <2>1, <2>7, <3>4, LastFlightEngine DEF DataProcessed
      <4>2. Over # Broken
        BY <2>4
      <4>3. request.part = Over => /\ engine'.eaten = Over /\ r.ret = "ERROR"
                                   /\ s_state' = "AUTHENTICATED"
        BY <1>4, <2>1, <3>1, <3>2, <3>4, <4>1, <4>2 DEF LastFlightOK
      <4>4. ASSUME NEW f \in Answers' PROVE f.kind # "Flight2"
        <5>1. CASE UNCHANGED <<frame, rx>>
          BY <2>2, <2>3, <5>1
        <5>2. CASE ~UNCHANGED <<frame, rx>>
          <6>1. r.buf # Nil /\ frame'.kind = r.buf
            BY <3>1, <5>2 DEF Silent, Respond
          <6> QED  BY <2>2, <4>1, <6>1
        <5> QED  BY <5>1, <5>2
      <4>5. \A f \in Answers' : f.kind = "Ack" /\ request.part = Over
               => engine'.eaten = Over
        BY <4>3
      <4> QED  BY <1>1, <1>2, <4>3, <4>4, <4>5 DEF LastFlightOK
    <3> QED  BY <2>7, <3>3, <3>4 DEF DataProcessed
  <2> QED
    BY <1>1, <2>1, <2>5, <2>6, <2>7
    DEF eap_frame_handler, HandleIdentity, StartAnswered, StartOverflows,
        HandleSuccess, HandleFailure
<1> QED  BY <1>1, <1>2, <1>4 DEF LastFlightOK

LEMMA LastFlightStep ==
    ASSUME EapTypeOK, LineOK, RequestOK, SameHandshake, EngineOK, EngineOK',
           LastFlightOK, [EapNext]_eapVars
    PROVE  LastFlightOK'
<1>0. toDevice \in Seq(Packets) /\ request \in Packets \cup {Nil}
  BY DEF EapTypeOK
<1>1. ASSUME UNCHANGED <<engine, request>>, s_state' \in {s_state, "START"},
             ~DeviceReceives,
             \/ UNCHANGED toDevice
             \/ toDevice # <<>> /\ toDevice' = Tail(toDevice)
             \/ request # Nil /\ toDevice' = <<request>>
      PROVE  LastFlightOK'
  <2>1. \A f \in Answers' : f \in Answers \/ f.kind = "EapolStart"
    BY <1>1, AnswersStep DEF EapolStart
  <2>2. Phase' = Phase /\ request' = request /\ engine' = engine
    BY <1>1 DEF Phase
  <2>3. \A i \in DOMAIN toDevice' : toDevice'[i].kind = "Success" =>
           i = 1 /\ engine.eaten = Over
    <3>1. CASE UNCHANGED toDevice
      BY <3>1 DEF LastFlightOK
    <3>2. CASE toDevice # <<>> /\ toDevice' = Tail(toDevice)
      BY <1>0, <3>2 DEF LastFlightOK
    <3>3. CASE request # Nil /\ toDevice' = <<request>>
      BY <3>3 DEF RequestOK
    <3> QED  BY <1>1, <3>1, <3>2, <3>3
  <2> QED  BY <1>1, <2>1, <2>2, <2>3 DEF LastFlightOK
<1>2. ASSUME NEW p, p.kind # "Success", toDevice' \in {<<>>, <<p>>},
             request' = Nil \/ request'.kind = "Identity"
      PROVE  LastFlightOK'
  <2>1. Phase' \in {"None", "Identity"}
    BY <1>2 DEF Phase
  <2> QED  BY <1>2, <2>1 DEF LastFlightOK
<1>3. CASE ServerReceives
  BY <1>3, LastFlightServer
<1>4. CASE DeviceReceives
  BY <1>4, LastFlightReceive
<1>5. CASE Initiate
  BY <1>2, <1>5 DEF Initiate, Ask, Packet
<1>6. CASE GiveUp
  BY <1>2, <1>6 DEF GiveUp, Finish, Packet, Quiescent
<1>7. CASE DeviceRestarts \/ LinkLost
  <2>1. request' = Nil /\ toDevice' = <<>>
    BY <1>7 DEF DeviceRestarts, LinkLost, NewSession
  <2>2. Phase' = "None"
    BY <2>1 DEF Phase
  <2> QED  BY <2>1, <2>2 DEF LastFlightOK
<1>8. CASE (Retransmit \/ FrameLost \/ DeviceTransmits \/ MainRuns \/ LinkStep
            \/ UNCHANGED eapVars) /\ ~DeviceReceives
  BY <1>1, <1>8
  DEF Retransmit, FrameLost, DeviceTransmits, MainRuns, LinkStep, RxTransmit,
      MainStep, TlsInit, StartAllowed, BuildStart, TransmitStart, StoreStart,
      supplicantVars, authVars, tlsVars, eapVars
<1> QED  BY <1>3, <1>4, <1>5, <1>6, <1>7, <1>8 DEF EapNext

-----------------------------------------------------------------------------
(* The theorems. *)

LEMMA ExchangeInit == EapInit => ExchangeInv
<1> SUFFICES ASSUME EapInit PROVE ExchangeInv
  OBVIOUS
<1>1. /\ toServer = <<>> /\ toDevice = <<>> /\ request = Nil /\ rx = "idle"
      /\ main = "booting" /\ s_state = "IDLE" /\ s_tls_in = <<>>
  BY DEF EapInit, SupplicantInit
<1>2. Phase = "None"
  BY <1>1 DEF Phase
<1>3. LineOK
  <2>1. SentEnd = 0 /\ BuiltEnd = 0 /\ OwnEnd = 1 /\ WayLen = 1
    BY <1>1 DEF SentEnd, BuiltEnd, OwnEnd, WayLen, Pending
  <2>2. Line(Way, WayLen, "None", eap_id)
    BY <2>1, LineRest
  <2> QED  BY <1>2, <2>2 DEF LineOK
<1>4. RequestOK /\ SameHandshake /\ CurrentInput /\ EngineOK /\ LastFlightOK
  BY <1>1, <1>2
  DEF RequestOK, SameHandshake, CurrentInput, EngineOK, LastFlightOK
<1> QED  BY <1>3, <1>4 DEF ExchangeInv

LEMMA ExchangeNext ==
    ASSUME EnoughIds, EapTypeOK, ExchangeInv, [EapNext]_eapVars
    PROVE  ExchangeInv'
<1>1. LineOK' /\ RequestOK' /\ SameHandshake' /\ CurrentInput' /\ EngineOK'
  BY LineStep, RequestStep, SameHandshakeStep, CurrentInputStep, EngineStep
  DEF ExchangeInv
<1>2. LastFlightOK'
  BY <1>1, LastFlightStep DEF ExchangeInv
<1> QED  BY <1>1, <1>2 DEF ExchangeInv

(* Whatever is lost, restarted, unplugged or overtaken, both sides stay in *)
(* step: the line of what is under way has one of the shapes above, and    *)
(* the requests and the responses in it belong to the handshake of the     *)
(* engine (eap_tls_supplicant.c:349-531).                                  *)
THEOREM InStep == ASSUME EnoughIds PROVE EapSpec => []ExchangeInv
<1>1. EapTypeOK /\ ExchangeInv /\ [EapNext]_eapVars => ExchangeInv'
  BY ExchangeNext
<1> QED  BY <1>1, ExchangeInit, EapTypeCorrect, PTL DEF EapSpec

(* No more than three frames are ever between the device and the           *)
(* authenticator, however often it repeats and however often the device    *)
(* restarts: nothing of the two tasks queues up.                           *)
THEOREM FewUnderWay ==
    ASSUME EnoughIds
    PROVE  EapSpec => [](Len(toServer) + Len(toDevice) <= 3)
<1>1. EapTypeOK /\ ExchangeInv => Len(toServer) + Len(toDevice) <= 3
  <2> SUFFICES ASSUME EapTypeOK, ExchangeInv
               PROVE  Len(toServer) + Len(toDevice) <= 3
    OBVIOUS
  <2>1. /\ Len(toServer) \in Nat /\ Len(toDevice) \in Nat /\ OwnEnd \in Nat
        /\ Len(toServer) <= OwnEnd
    <3>1. Len(toServer) \in Nat /\ Len(toDevice) \in Nat /\ SentEnd = Len(toServer)
      BY DEF EapTypeOK, SupplicantTypeOK, SentEnd
    <3>2. SentEnd <= BuiltEnd /\ BuiltEnd <= OwnEnd /\ OwnEnd \in Nat /\ BuiltEnd \in Nat
      BY WayTypes
    <3> QED  BY <3>1, <3>2
  <2>2. OwnEnd + Len(toDevice) <= 3
    BY DEF ExchangeInv, LineOK, Line, WayLen
  <2> QED  BY <2>1, <2>2
<1> QED  BY <1>1, InStep, EapTypeCorrect, PTL

(* An intact engine reads no byte of an earlier handshake, although        *)
(* nothing resets s_tls_in at a TLS Start (eap_tls_supplicant.c:360-408):  *)
(* the stale bytes break the engine, and the request whose data is taken   *)
(* is that of the engine's own handshake.                                  *)
THEOREM NoStaleInput == ASSUME EnoughIds PROVE EapSpec => []InputIsCurrent
<1>1. ExchangeInv => InputIsCurrent
  BY DEF ExchangeInv, CurrentInput, InputIsCurrent
<1> QED  BY <1>1, InStep, PTL

(* The code takes every Success (eap_tls_supplicant.c:687-690), and yet no *)
(* Success reaches a supplicant whose engine has not verified the last     *)
(* flight of the server: not after a reset, and not after a handshake      *)
(* that broke.                                                             *)
THEOREM SuccessIsEarned == ASSUME EnoughIds PROVE EapSpec => SuccessAfterHandshake
<1>1. EapTypeOK /\ ExchangeInv /\ [EapNext]_eapVars
         => [s_authenticated' /\ ~s_authenticated => engine.eaten = Over]_eapVars
  <2> SUFFICES ASSUME EapTypeOK, ExchangeInv, EapNext,
                      s_authenticated', ~s_authenticated
               PROVE  engine.eaten = Over
    OBVIOUS
  <2>1. CASE DeviceReceives
    <3>1. Head(toDevice).kind = "Success"
      BY <2>1 DEF DeviceReceives, eap_frame_handler, HandleIdentity,
         StartAnswered, StartOverflows, DataOverflows, DataStored,
         DataProcessed, HandleSuccess, HandleFailure
    <3>2. 1 \in DOMAIN toDevice /\ toDevice[1].kind = "Success"
      BY <2>1, <3>1 DEF DeviceReceives, EapTypeOK
    <3> QED  BY <3>2 DEF ExchangeInv, LastFlightOK
  <2> QED
    BY <2>1
    DEF EapNext, ServerReceives, Initiate, Retransmit, GiveUp, DeviceTransmits,
        MainRuns, MainStep, RxTransmit, TlsInit, StartAllowed, BuildStart,
        TransmitStart, StoreStart, DeviceRestarts, SupplicantRestart, LinkLost,
        LinkStep, FrameLost, supplicantVars
<1> QED
  BY <1>1, InStep, EapTypeCorrect, PTL DEF EapSpec, SuccessAfterHandshake

=============================================================================
