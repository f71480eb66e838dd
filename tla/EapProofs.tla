------------------------------ MODULE EapProofs ------------------------------
(***************************************************************************)
(* Type correctness of the EAP exchange for flights, input buffers,        *)
(* identifiers and numbers of faults of any size.  It includes the bound   *)
(* on s_tls_in: whatever the authenticator repeats and whatever the engine *)
(* leaves unread, no more than InCap fragments are ever in the buffer.     *)
(***************************************************************************)
EXTENDS EapExchange, TLAPS

-----------------------------------------------------------------------------
(* Sequences of frames. *)

(* What a queue holds after its first element is taken. *)
LEMMA QueueTail ==
    ASSUME NEW S, NEW q \in Seq(S), q # <<>>
    PROVE  Head(q) \in S /\ Tail(q) \in Seq(S) /\ Len(Tail(q)) < Len(q)
OBVIOUS

(* What it holds after one more has come. *)
LEMMA QueueAppend ==
    ASSUME NEW S, NEW q \in Seq(S), NEW e \in S
    PROVE  Append(q, e) \in Seq(S) /\ Len(Append(q, e)) = Len(q) + 1
OBVIOUS

LEMMA EmptyQueue == \A S : <<>> \in Seq(S) /\ Len(<<>>) = 0
OBVIOUS

-----------------------------------------------------------------------------
(* The link. *)

LEMMA LinkTypes ==
    ASSUME LinkTypeOK, PhyUp \/ PhyDown \/ GotIp \/ LostIp \/ HandleEvent
    PROVE  LinkTypeOK'
<1> USE LinkAssumption DEF LinkTypeOK
<1>1. ASSUME NEW e \in LinkEvents, Post(e)
      PROVE  /\ events' \in Seq(LinkEvents) /\ Len(events') <= MaxEvents
             /\ s_link_up' \in BOOLEAN
  <2>1. /\ events' \in Seq(LinkEvents) /\ Len(events') = Len(events) + 1
        /\ Len(events) \in Nat /\ Len(events) < MaxEvents
    BY <1>1, QueueAppend DEF Post
  <2> QED  BY <1>1, <2>1 DEF Post, MaxEvents
<1>2. CASE PhyUp
  BY <1>1, <1>2 DEF PhyUp, LinkEvents
<1>3. CASE PhyDown
  <2>1. faults' \in 0..MaxFaults
    BY <1>3 DEF PhyDown
  <2>2. /\ events' \in Seq(LinkEvents) /\ Len(events') <= MaxEvents
        /\ s_link_up' \in BOOLEAN
    BY <1>1, <1>3 DEF PhyDown, LinkEvents
  <2> QED  BY <1>3, <2>1, <2>2 DEF PhyDown
<1>4. CASE GotIp
  BY <1>1, <1>4 DEF GotIp, LinkEvents
<1>5. CASE LostIp
  BY <1>1, <1>5 DEF LostIp, LinkEvents
<1>6. CASE HandleEvent
  <2>1. events' \in Seq(LinkEvents) /\ Len(events') < Len(events)
        /\ Len(events) \in Nat /\ Len(events') \in Nat
    BY <1>6, QueueTail DEF HandleEvent
  <2> QED  BY <1>6, <2>1 DEF HandleEvent, MaxEvents
<1> QED  BY <1>2, <1>3, <1>4, <1>5, <1>6

-----------------------------------------------------------------------------
(* The TLS engine. *)

Outputs == {Nil, "ClientHello", "Flight2", "Alert"}

(* What the engine leaves unread fits where the input was. *)
LEMMA SuffixTypes ==
    ASSUME NEW S, NEW q \in Seq(S), NEW l \in Suffixes(q)
    PROVE  /\ l \in Seq(S) /\ Len(l) <= Len(q)
           /\ \A i \in DOMAIN l : \E j \in DOMAIN q : l[i] = q[j]
<1>1. PICK k \in 1..(Len(q) + 1) : l = SubSeq(q, k, Len(q))
  BY DEF Suffixes
<1>2. Len(q) \in Nat /\ k \in Nat /\ \A i \in k..Len(q) : q[i] \in S
  OBVIOUS
<1>3. l \in Seq(S) /\ Len(l) <= Len(q)
  BY <1>1, <1>2
<1>4. ASSUME NEW i \in DOMAIN l PROVE \E j \in DOMAIN q : l[i] = q[j]
  <2>1. k + i - 1 \in DOMAIN q /\ l[i] = q[k + i - 1]
    BY <1>1, <1>2, <1>4
  <2> QED  BY <2>1
<1> QED  BY <1>3, <1>4

LEMMA HandshakeTypes ==
    ASSUME NEW hs, NEW eaten \in 0..Broken, NEW buf \in Outputs,
           NEW input \in Seq(Chunks), Len(input) <= InCap,
           input = <<>> => eaten # Broken,
           NEW r \in Handshake(hs, eaten, buf, input)
    PROVE  /\ r.eaten \in 0..Broken
           /\ r.buf \in Outputs
           /\ r.left \in Seq(Chunks) /\ Len(r.left) <= InCap
<1> DEFINE end == IF Follows(hs, eaten, input) THEN eaten + Len(input) ELSE Broken
<1>0. /\ FlightParts \in Nat \ {0} /\ InCap \in Nat \ {0}
      /\ Over = FlightParts + 1 /\ Broken = FlightParts + 2
      /\ Len(input) \in Nat /\ DOMAIN input = 1..Len(input)
  BY SupplicantAssumption DEF Over, Broken
<1>1. end \in 0..Broken
  <2>1. CASE Follows(hs, eaten, input) /\ input # <<>>
    <3>1. Len(input) \in DOMAIN input
      BY <1>0, <2>1
    <3> QED  BY <1>0, <2>1, <3>1 DEF Follows
  <2>2. CASE Follows(hs, eaten, input) /\ input = <<>>
    BY <1>0, <2>2
  <2> QED  BY <1>0, <2>1, <2>2
<1>2. <<>> \in Seq(Chunks) /\ Len(<<>>) <= InCap
  BY <1>0
<1>3. CASE end = Broken
  <2>1. /\ r.eaten = Broken /\ r.buf \in {buf, "Alert"}
        /\ r.left = <<>> \/ r.left \in Suffixes(input)
    BY <1>3 DEF Handshake
  <2>2. r.eaten \in 0..Broken /\ r.buf \in Outputs
    BY <1>0, <2>1 DEF Outputs
  <2>3. CASE r.left = <<>>
    BY <1>2, <2>2, <2>3
  <2>4. CASE r.left \in Suffixes(input)
    <3>1. r.left \in Seq(Chunks) /\ Len(r.left) <= Len(input)
      BY <2>4, SuffixTypes
    <3> QED  BY <1>0, <2>2, <3>1
  <2> QED  BY <2>1, <2>3, <2>4
<1>4. CASE end # Broken
  <2>1. r.eaten = end /\ r.buf \in {buf, "Flight2"} /\ r.left = <<>>
    BY <1>4 DEF Handshake
  <2> QED  BY <1>1, <1>2, <2>1 DEF Outputs
<1> QED  BY <1>3, <1>4

(* What the engine gives back, by whether it goes on or breaks. *)
LEMMA HandshakeCases ==
    ASSUME NEW hs, NEW eaten, NEW buf, NEW input,
           NEW r \in Handshake(hs, eaten, buf, input)
    PROVE  \/ /\ r.eaten = Broken
              /\ r.ret = "WANT_READ" => r.buf = buf
              /\ r.buf \in {buf, "Alert"}
              /\ r.left = <<>> \/ r.left \in Suffixes(input)
           \/ /\ Follows(hs, eaten, input)
              /\ r.eaten = eaten + Len(input) /\ r.eaten # Broken
              /\ r.buf = IF eaten < FlightParts /\ FlightParts <= r.eaten
                         THEN "Flight2" ELSE buf
              /\ r.ret = IF r.eaten = Over THEN "ERROR" ELSE "WANT_READ"
              /\ r.left = <<>>
BY DEF Handshake

-----------------------------------------------------------------------------
(* The device. *)

LEMMA Numbers ==
    /\ FlightParts \in Nat \ {0} /\ InCap \in Nat \ {0}
    /\ Over = FlightParts + 1 /\ Broken = FlightParts + 2
    /\ Epochs \in Nat \ {0} /\ Ids \in Nat \ {0}
    /\ \A n \in Nat : (n + 1) % Epochs \in 0..(Epochs - 1)
    /\ \A n \in Nat : (n + 1) % Ids \in 0..(Ids - 1)
BY SupplicantAssumption DEF Over, Broken

(* The part of the state eap_frame_handler writes. *)
HandlerTypes ==
    /\ s_state \in States
    /\ s_authenticated \in BOOLEAN
    /\ s_tls_in \in Seq(Chunks)
    /\ Len(s_tls_in) <= InCap
    /\ send_buf \in Outputs
    /\ engine \in [hs : 0..(Epochs - 1), eaten : 0..Broken]
    /\ rx \in {"idle", "built"}
    /\ frame \in Replies \cup {Nil}
    /\ rx = "built" => frame # Nil

(* A frame built by the handler is a reply. *)
LEMMA RespondTypes ==
    ASSUME NEW p \in Packets, NEW kind \in {"Identity", "ClientHello", "Flight2", "Alert", "Ack"},
           engine' \in [hs : 0..(Epochs - 1), eaten : 0..Broken],
           Respond(p, kind)
    PROVE  rx' \in {"idle", "built"} /\ frame' \in Replies /\ frame' # Nil
<1>1. rx' = "built" /\ frame' \in Replies
  BY DEF Respond, Packets, Replies
<1> QED  BY <1>1, NilAssumption

LEMMA HandlerStep ==
    ASSUME SupplicantTypeOK, NEW p \in Packets, eap_frame_handler(p)
    PROVE  HandlerTypes'
<1>0. HandlerTypes /\ p.id \in 0..(Ids - 1)
  BY DEF SupplicantTypeOK, HandlerTypes, Outputs, Packets
<1>1. CASE HandleIdentity(p)
  <2>1. /\ s_state' = "IDENTITY_SENT"
        /\ UNCHANGED <<s_authenticated, s_tls_in, send_buf, engine>>
        /\ Respond(p, "Identity") \/ Silent
    BY <1>1 DEF HandleIdentity, tlsVars
  <2>2. rx' \in {"idle", "built"} /\ frame' \in Replies \cup {Nil}
        /\ (rx' = "built" => frame' # Nil)
    <3>1. CASE Respond(p, "Identity")
      BY <1>0, <2>1, <3>1, RespondTypes DEF HandlerTypes
    <3>2. CASE Silent
      BY <1>0, <3>2 DEF Silent, HandlerTypes
    <3> QED  BY <2>1, <3>1, <3>2
  <2> QED  BY <1>0, <2>1, <2>2 DEF HandlerTypes, States
<1>2. CASE HandleSuccess(p) \/ HandleFailure(p)
  BY <1>0, <1>2 DEF HandleSuccess, HandleFailure, HandlerTypes, tlsVars, Silent, States
<1>3. ASSUME NEW r \in StartResult
      PROVE  /\ r.eaten \in 0..Broken /\ r.buf \in Outputs
  <2>1. 0 \in 0..Broken /\ "ClientHello" \in Outputs /\ Broken # 0
    BY Numbers DEF Outputs
  <2> QED  BY <1>0, <1>3, <2>1, HandshakeTypes DEF StartResult, HandlerTypes
<1>4. CASE StartAnswered(p)
  <2>1. engine' \in [hs : 0..(Epochs - 1), eaten : 0..Broken]
    BY <1>0, <1>3, <1>4, Numbers DEF StartAnswered, HandlerTypes
  <2>2. /\ s_tls_in' = <<>> /\ send_buf' = Nil /\ s_state' = "KEY_EXCHANGE"
        /\ s_authenticated' = s_authenticated
        /\ rx' \in {"idle", "built"} /\ frame' \in Replies /\ frame' # Nil
    BY <1>4, <2>1, RespondTypes DEF StartAnswered
  <2> QED  BY <1>0, <2>1, <2>2, Numbers DEF HandlerTypes, Outputs, States
<1>5. CASE StartOverflows(p)
  <2>1. engine' \in [hs : 0..(Epochs - 1), eaten : 0..Broken]
        /\ send_buf' \in Outputs
    BY <1>0, <1>3, <1>5, Numbers DEF StartOverflows, HandlerTypes
  <2> QED  BY <1>0, <1>5, <2>1, Numbers DEF StartOverflows, HandlerTypes, Silent, States
<1>6. CASE DataOverflows(p)
  BY <1>0, <1>6, Numbers DEF DataOverflows, HandlerTypes, Silent, States
<1>7. ASSUME p.kind = "Data", Len(s_tls_in) < InCap
      PROVE  /\ Append(s_tls_in, Chunk(p)) \in Seq(Chunks)
             /\ Len(Append(s_tls_in, Chunk(p))) <= InCap
             /\ Append(s_tls_in, Chunk(p)) # <<>>
  <2>1. Chunk(p) \in Chunks
    BY <1>7, Numbers DEF Packets, Chunk, Chunks
  <2>2. s_tls_in \in Seq(Chunks) /\ Len(s_tls_in) \in Nat
    BY <1>0 DEF HandlerTypes
  <2>3. /\ Append(s_tls_in, Chunk(p)) \in Seq(Chunks)
        /\ Len(Append(s_tls_in, Chunk(p))) = Len(s_tls_in) + 1
    BY <2>1, <2>2, QueueAppend
  <2> QED  BY <1>7, <2>2, <2>3, Numbers
<1>8. CASE DataStored(p)
  <2>1. /\ rx' \in {"idle", "built"} /\ frame' \in Replies \cup {Nil}
        /\ rx' = "built" => frame' # Nil
    BY <1>0, <1>8, RespondTypes DEF DataStored, HandlerTypes, Silent
  <2> QED  BY <1>0, <1>7, <1>8, <2>1 DEF DataStored, HandlerTypes
<1>9. CASE DataProcessed(p)
  <2> DEFINE input == Append(s_tls_in, Chunk(p))
  <2>1. PICK r \in Handshake(engine.hs, engine.eaten, send_buf, input) :
           /\ engine' = [engine EXCEPT !.eaten = r.eaten]
           /\ IF r.ret = "WANT_READ" /\ r.buf # Nil
              THEN /\ s_tls_in' = <<>>
                   /\ send_buf' = Nil
                   /\ s_state' = "CHANGE_CIPHER_SPEC"
                   /\ Respond(p, r.buf)
              ELSE /\ s_tls_in' = r.left
                   /\ send_buf' = r.buf
                   /\ s_state' = IF s_state = "KEY_EXCHANGE"
                                 THEN "KEY_EXCHANGE" ELSE "AUTHENTICATED"
                   /\ Silent
    BY <1>9 DEF DataProcessed
  <2>2. /\ input \in Seq(Chunks) /\ Len(input) <= InCap /\ input # <<>>
        /\ engine.eaten \in 0..Broken /\ send_buf \in Outputs
    BY <1>0, <1>7, <1>9 DEF DataProcessed, HandlerTypes
  <2> HIDE DEF input
  <2>3. /\ r.eaten \in 0..Broken /\ r.buf \in Outputs
        /\ r.left \in Seq(Chunks) /\ Len(r.left) <= InCap
    BY <2>2, HandshakeTypes
  <2>4. engine' \in [hs : 0..(Epochs - 1), eaten : 0..Broken]
    BY <1>0, <2>1, <2>3 DEF HandlerTypes
  <2>5. s_authenticated' = s_authenticated /\ <<>> \in Seq(Chunks) /\ Len(<<>>) <= InCap
    BY <1>9, Numbers DEF DataProcessed
  <2>6. CASE r.ret = "WANT_READ" /\ r.buf # Nil
    <3>1. rx' \in {"idle", "built"} /\ frame' \in Replies /\ frame' # Nil
      BY <2>1, <2>3, <2>4, <2>6, RespondTypes DEF Outputs
    <3> QED  BY <1>0, <2>1, <2>4, <2>5, <2>6, <3>1 DEF HandlerTypes, Outputs, States
  <2>7. CASE ~(r.ret = "WANT_READ" /\ r.buf # Nil)
    BY <1>0, <2>1, <2>3, <2>4, <2>5, <2>7 DEF HandlerTypes, Silent, States
  <2> QED  BY <2>6, <2>7
<1> QED
  BY <1>1, <1>2, <1>4, <1>5, <1>6, <1>8, <1>9 DEF eap_frame_handler

(* The receive task's transmission and the main task. *)
LEMMA DeviceStep ==
    ASSUME SupplicantTypeOK, UNCHANGED linkVars, RxTransmit \/ MainStep
    PROVE  SupplicantTypeOK'
<1> USE DEF SupplicantTypeOK
<1>0. LinkTypeOK'
  BY DEF LinkTypeOK, linkVars
<1>1. EapolStart \in Replies
  BY Numbers DEF EapolStart, Replies
<1>2. UNCHANGED <<s_authenticated, s_eap_identifier, tlsVars>>
  BY DEF RxTransmit, MainStep, TlsInit, StartAllowed, BuildStart,
         TransmitStart, StoreStart
<1>3. main' \in {"booting", "initialised", "waiting", "built", "sent", "running"}
      /\ s_state' \in States /\ rx' \in {"idle", "built"}
  BY DEF RxTransmit, MainStep, TlsInit, StartAllowed, BuildStart,
         TransmitStart, StoreStart, MainTo, States
<1>4. frame' \in Replies \cup {Nil} /\ (rx' = "built" => frame' # Nil)
  BY <1>1, NilAssumption DEF RxTransmit, MainStep, TlsInit, StartAllowed, BuildStart,
              TransmitStart, StoreStart
<1>5. toServer' \in Seq(Replies)
  <2>1. CASE RxTransmit
    BY <2>1, QueueAppend DEF RxTransmit
  <2>2. CASE TransmitStart
    BY <1>1, <2>2, QueueAppend DEF TransmitStart
  <2>3. CASE TlsInit \/ StartAllowed \/ BuildStart \/ StoreStart
    BY <2>3 DEF TlsInit, StartAllowed, BuildStart, StoreStart
  <2> QED  BY <2>1, <2>2, <2>3 DEF MainStep
<1> QED  BY <1>0, <1>2, <1>3, <1>4, <1>5 DEF tlsVars

-----------------------------------------------------------------------------
(* The authenticator. *)

AuthTypes ==
    /\ toDevice \in Seq(Packets)
    /\ request \in Packets \cup {Nil}
    /\ retries \in 0..MaxRetries
    /\ eap_id \in 0..(Ids - 1)
    /\ authorized \in BOOLEAN

LEMMA PacketTypes ==
    ASSUME AuthTypes,
           NEW kind \in {"Identity", "Start", "Data", "Success", "Failure"},
           NEW hs \in 0..(Epochs - 1), NEW part \in 0..Over,
           kind = "Data" <=> part # 0
    PROVE  Packet(kind, hs, part) \in Packets
<1>1. NextId \in 0..(Ids - 1)
  BY Numbers DEF AuthTypes, NextId
<1> QED  BY <1>1 DEF Packet, Packets

LEMMA AskTypes ==
    ASSUME AuthTypes, NEW p \in Packets, Ask(p), UNCHANGED authorized
    PROVE  AuthTypes'
<1>1. toDevice' \in Seq(Packets)
  BY QueueAppend DEF AuthTypes, Ask
<1>2. request' \in Packets \cup {Nil} /\ eap_id' \in 0..(Ids - 1)
      /\ retries' \in 0..MaxRetries
  BY EapAssumption DEF Ask, Packets
<1> QED  BY <1>1, <1>2 DEF AuthTypes

LEMMA FinishTypes ==
    ASSUME AuthTypes, NEW kind \in {"Success", "Failure"}, Finish(kind)
    PROVE  AuthTypes'
<1>1. Packet(kind, 0, 0) \in Packets
  BY PacketTypes, Numbers
<1>2. toDevice' \in Seq(Packets)
  BY <1>1, QueueAppend DEF AuthTypes, Finish
<1>3. request' = Nil /\ retries' \in 0..MaxRetries /\ eap_id' \in 0..(Ids - 1)
  BY EapAssumption, Numbers DEF AuthTypes, Finish, NextId
<1>4. authorized' \in BOOLEAN
  BY DEF Finish
<1> QED  BY <1>2, <1>3, <1>4 DEF AuthTypes

LEMMA NewSessionTypes == NewSession => AuthTypes'
<1>1. 0 \in 0..MaxRetries /\ 0 \in 0..(Ids - 1)
  BY Numbers, EapAssumption
<1> QED  BY <1>1, EmptyQueue DEF NewSession, AuthTypes

LEMMA FollowingTypes ==
    ASSUME AuthTypes, request # Nil, NEW r \in Replies
    PROVE  Following(r) \in Packets \cup {Nil}
<1>0. /\ r.hs \in 0..(Epochs - 1)
      /\ request.hs \in 0..(Epochs - 1) /\ request.part \in 0..Over
      /\ 0 \in 0..(Epochs - 1) /\ 0 \in 0..Over /\ 1 \in 0..Over
      /\ Over \in 0..Over /\ Over # 0
  BY Numbers DEF AuthTypes, Packets, Replies
<1>1. /\ Packet("Start", 0, 0) \in Packets
      /\ Packet("Data", r.hs, 1) \in Packets
      /\ Packet("Data", request.hs, Over) \in Packets
  BY <1>0, PacketTypes
<1>2. request.part < FlightParts
         => Packet("Data", request.hs, request.part + 1) \in Packets
  <2>1. request.part < FlightParts
           => request.part + 1 \in 0..Over /\ request.part + 1 # 0
    BY <1>0, Numbers
  <2> QED  BY <1>0, <2>1, PacketTypes
<1> HIDE DEF Packet
<1> QED  BY <1>1, <1>2 DEF Following

(* What the authenticator asks next, by what it has asked and got. *)
LEMMA FollowingCases ==
    ASSUME NEW r, Following(r) # Nil
    PROVE  \/ /\ request.kind = "Identity" /\ r.kind = "Identity"
              /\ Following(r) = Packet("Start", 0, 0)
           \/ /\ request.kind = "Start" /\ r.kind = "ClientHello"
              /\ Following(r) = Packet("Data", r.hs, 1)
           \/ /\ request.kind = "Data" /\ r.kind = "Ack"
              /\ request.part < FlightParts
              /\ Following(r) = Packet("Data", request.hs, request.part + 1)
           \/ /\ request.kind = "Data" /\ r.kind = "Flight2"
              /\ request.part = FlightParts
              /\ Following(r) = Packet("Data", request.hs, Over)
BY DEF Following

LEMMA ServerStep ==
    ASSUME EapTypeOK, ServerReceives
    PROVE  AuthTypes' /\ toServer' \in Seq(Replies)
<1>0. AuthTypes /\ toServer \in Seq(Replies)
  BY DEF EapTypeOK, SupplicantTypeOK, AuthTypes
<1>1. Head(toServer) \in Replies /\ toServer' \in Seq(Replies)
  BY <1>0, QueueTail DEF ServerReceives
<1> DEFINE r == Head(toServer)
<1>2. CASE r.kind = "EapolStart"
  <2>1. Packet("Identity", 0, 0) \in Packets
    BY <1>0, PacketTypes, Numbers
  <2>2. Ask(Packet("Identity", 0, 0)) /\ UNCHANGED authorized
    BY <1>2 DEF ServerReceives
  <2> QED  BY <1>0, <1>1, <2>1, <2>2, AskTypes
<1>3. CASE UNCHANGED authVars
  BY <1>0, <1>1, <1>3 DEF authVars, AuthTypes
<1>4. CASE Finish("Success") \/ Finish("Failure")
  BY <1>0, <1>1, <1>4, FinishTypes
<1>5. CASE /\ request # Nil /\ Following(r) # Nil
           /\ Ask(Following(r)) /\ UNCHANGED authorized
  BY <1>0, <1>1, <1>5, AskTypes, FollowingTypes
<1> QED  BY <1>2, <1>3, <1>4, <1>5 DEF ServerReceives

-----------------------------------------------------------------------------
(* The theorem. *)

LEMMA EapTypeInit == EapInit => EapTypeOK
<1> SUFFICES ASSUME EapInit PROVE EapTypeOK
  OBVIOUS
<1>0. \A S : <<>> \in Seq(S) /\ Len(<<>>) = 0
  BY EmptyQueue
<1>1. LinkTypeOK
  <2>1. 0 \in 0..MaxFaults /\ 0 <= MaxEvents
    BY LinkAssumption DEF MaxEvents
  <2>2. phy = FALSE /\ events = <<>> /\ s_link_up = FALSE /\ faults = 0
    BY DEF EapInit, LinkInit
  <2> QED  BY <1>0, <2>1, <2>2 DEF LinkTypeOK
<1>2. [hs |-> 0, eaten |-> 0] \in [hs : 0..(Epochs - 1), eaten : 0..Broken]
      /\ 0 \in 0..(Ids - 1) /\ 0 <= InCap
  BY Numbers
<1>3. SupplicantTypeOK
  BY <1>0, <1>1, <1>2 DEF EapInit, SupplicantInit, SupplicantTypeOK, States
<1>4. 0 \in 0..MaxRetries /\ 0 \in 0..MaxLosses
  BY EapAssumption
<1> QED  BY <1>0, <1>2, <1>3, <1>4 DEF EapInit, EapTypeOK

LEMMA EapTypeNext ==
    ASSUME EapTypeOK, [EapNext]_eapVars
    PROVE  EapTypeOK'
<1>0. /\ SupplicantTypeOK /\ LinkTypeOK /\ AuthTypes
      /\ losses \in 0..MaxLosses
  BY DEF EapTypeOK, SupplicantTypeOK, AuthTypes
<1>1. ASSUME SupplicantTypeOK', AuthTypes', losses' \in 0..MaxLosses
      PROVE  EapTypeOK'
  BY <1>1 DEF EapTypeOK, AuthTypes
<1>2. ASSUME UNCHANGED <<linkVars, supplicantVars>> PROVE SupplicantTypeOK'
  BY <1>0, <1>2 DEF SupplicantTypeOK, LinkTypeOK, linkVars, supplicantVars,
                    tlsVars
<1>3. ASSUME UNCHANGED authVars PROVE AuthTypes'
  BY <1>0, <1>3 DEF AuthTypes, authVars
<1>4. ASSUME ServerReceives PROVE EapTypeOK'
  <2>1. /\ toServer' \in Seq(Replies) /\ AuthTypes'
        /\ UNCHANGED <<linkVars, s_state, s_authenticated, s_eap_identifier,
                       tlsVars, main, rx, frame, losses>>
    BY <1>4, ServerStep DEF ServerReceives
  <2>2. SupplicantTypeOK'
    BY <1>0, <2>1 DEF SupplicantTypeOK, LinkTypeOK, linkVars, tlsVars
  <2> QED  BY <1>0, <1>1, <2>1, <2>2
<1>5. ASSUME Initiate PROVE EapTypeOK'
  <2>1. Packet("Identity", 0, 0) \in Packets
    BY <1>0, PacketTypes, Numbers
  <2>2. AuthTypes'
    BY <1>0, <1>5, <2>1, AskTypes DEF Initiate
  <2> QED  BY <1>0, <1>1, <1>2, <1>5, <2>2 DEF Initiate
<1>6. ASSUME Retransmit PROVE EapTypeOK'
  <2>1. request \in Packets /\ <<request>> \in Seq(Packets)
        /\ retries + 1 \in 0..MaxRetries
    BY <1>0, <1>6, EapAssumption DEF Retransmit, AuthTypes
  <2>2. AuthTypes'
    BY <1>0, <1>6, <2>1 DEF Retransmit, AuthTypes
  <2> QED  BY <1>0, <1>1, <1>2, <1>6, <2>2 DEF Retransmit
<1>7. ASSUME GiveUp PROVE EapTypeOK'
  <2>1. AuthTypes'
    BY <1>0, <1>7, FinishTypes DEF GiveUp
  <2> QED  BY <1>0, <1>1, <1>2, <1>7, <2>1 DEF GiveUp
<1>8. ASSUME DeviceReceives PROVE EapTypeOK'
  <2>1. Head(toDevice) \in Packets /\ toDevice' \in Seq(Packets)
    BY <1>0, <1>8, QueueTail DEF DeviceReceives, AuthTypes
  <2>2. AuthTypes' /\ losses' = losses /\ UNCHANGED linkVars
    BY <1>0, <1>8, <2>1 DEF DeviceReceives, AuthTypes
  <2>3. HandlerTypes' /\ UNCHANGED <<main, toServer>>
        /\ s_eap_identifier' \in 0..(Ids - 1)
    BY <1>0, <1>8, <2>1, HandlerStep
    DEF DeviceReceives, eap_frame_handler, Packets
  <2>4. LinkTypeOK'
    BY <1>0, <2>2 DEF LinkTypeOK, linkVars
  <2>5. SupplicantTypeOK'
    BY <1>0, <2>3, <2>4 DEF SupplicantTypeOK, HandlerTypes, Outputs
  <2> QED  BY <1>0, <1>1, <2>2, <2>5
<1>9. ASSUME DeviceTransmits \/ MainRuns PROVE EapTypeOK'
  <2>1. SupplicantTypeOK' /\ UNCHANGED authVars /\ losses' = losses
    BY <1>0, <1>9, DeviceStep DEF DeviceTransmits, MainRuns
  <2> QED  BY <1>0, <1>1, <1>3, <2>1
<1>10. ASSUME DeviceRestarts PROVE EapTypeOK'
  <2>1. AuthTypes'
    BY <1>10, NewSessionTypes DEF DeviceRestarts
  <2>2. LinkTypeOK'
    <3>1. /\ phy' = FALSE /\ events' = <<>> /\ s_link_up' = FALSE
          /\ faults' = faults
      BY <1>10 DEF DeviceRestarts
    <3>2. 0 <= MaxEvents
      BY DEF MaxEvents
    <3> QED  BY <1>0, <3>1, <3>2, EmptyQueue DEF LinkTypeOK
  <2>3. [hs |-> 0, eaten |-> 0] \in [hs : 0..(Epochs - 1), eaten : 0..Broken]
        /\ 0 \in 0..(Ids - 1) /\ 0 <= InCap
    BY Numbers
  <2>4. SupplicantTypeOK'
    BY <1>10, <2>2, <2>3, EmptyQueue
    DEF DeviceRestarts, SupplicantRestart, SupplicantTypeOK, States
  <2> QED  BY <1>0, <1>1, <1>10, <2>1, <2>4 DEF DeviceRestarts
<1>11. ASSUME LinkLost PROVE EapTypeOK'
  <2>1. AuthTypes'
    BY <1>11, NewSessionTypes DEF LinkLost
  <2>2. LinkTypeOK'
    BY <1>0, <1>11, LinkTypes DEF LinkLost
  <2>3. SupplicantTypeOK'
    BY <1>0, <1>11, <2>2 DEF LinkLost, SupplicantTypeOK, tlsVars
  <2> QED  BY <1>0, <1>1, <1>11, <2>1, <2>3 DEF LinkLost
<1>12. ASSUME LinkStep PROVE EapTypeOK'
  <2>1. LinkTypeOK'
    BY <1>0, <1>12, LinkTypes DEF LinkStep
  <2>2. SupplicantTypeOK'
    BY <1>0, <1>12, <2>1 DEF LinkStep, SupplicantTypeOK, supplicantVars, tlsVars
  <2> QED  BY <1>0, <1>1, <1>3, <1>12, <2>2 DEF LinkStep
<1>13. ASSUME FrameLost PROVE EapTypeOK'
  <2>1. toServer' \in Seq(Replies) /\ toDevice' \in Seq(Packets)
    <3>1. toServer \in Seq(Replies) /\ toDevice \in Seq(Packets)
      BY <1>0 DEF SupplicantTypeOK, AuthTypes
    <3>2. toServer # <<>> => Tail(toServer) \in Seq(Replies)
      BY <3>1, QueueTail
    <3>3. toDevice # <<>> => Tail(toDevice) \in Seq(Packets)
      BY <3>1, QueueTail
    <3> QED  BY <1>13, <3>1, <3>2, <3>3 DEF FrameLost
  <2>2. AuthTypes'
    BY <1>0, <1>13, <2>1 DEF FrameLost, AuthTypes
  <2>3. SupplicantTypeOK'
    BY <1>0, <1>13, <2>1
    DEF FrameLost, SupplicantTypeOK, LinkTypeOK, linkVars, tlsVars
  <2>4. losses' \in 0..MaxLosses
    BY <1>0, <1>13, EapAssumption DEF FrameLost
  <2> QED  BY <1>1, <2>2, <2>3, <2>4
<1>14. ASSUME UNCHANGED eapVars PROVE EapTypeOK'
  BY <1>0, <1>1, <1>2, <1>3, <1>14
  DEF eapVars, linkVars, supplicantVars, tlsVars, authVars
<1> QED
  BY <1>4, <1>5, <1>6, <1>7, <1>8, <1>9, <1>10, <1>11, <1>12, <1>13, <1>14
  DEF EapNext

(* Every variable of the exchange keeps its type; in particular the input  *)
(* buffer never holds more than fits, and no frame is transmitted that was *)
(* not built (eap_tls_supplicant.c:411-425, 538-573).                      *)
THEOREM EapTypeCorrect == EapSpec => []EapTypeOK
BY EapTypeInit, EapTypeNext, PTL DEF EapSpec

=============================================================================
