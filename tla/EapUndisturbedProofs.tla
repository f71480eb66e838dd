------------------------ MODULE EapUndisturbedProofs ------------------------
(***************************************************************************)
(* In an exchange without losses and link failures the device is never     *)
(* rejected, for flights of any size that fits into s_tls_in: OnTrack is   *)
(* inductive.  What makes it so is the order of the steps: one frame is    *)
(* under way, the state of the supplicant is that of the request it is to  *)
(* receive, and the only request it is silent on is repeated.              *)
(***************************************************************************)
EXTENDS EapUndisturbed, EapProofs

(* What OnTrack reads. *)
trackVars == <<s_state, tlsVars, main, rx, frame, toServer, authVars>>

LEMMA TrackSame == ASSUME OnTrack, UNCHANGED trackVars PROVE OnTrack'
<1> USE DEF trackVars, tlsVars, authVars
<1>1. Starting => Starting'
  BY DEF Starting, Holding
<1>2. Ended => Ended'
  BY DEF Ended
<1>3. ASSUME NEW a, NEW n, Holding(a, n) PROVE Holding(a, n)'
  BY <1>3 DEF Holding
<1>4. Expects => Expects'
  BY <1>3 DEF Expects, AsksFor
<1>5. ASSUME NEW f, Answered(f) PROVE Answered(f)'
  BY <1>3, <1>5 DEF Answered, AsksFor
<1>6. Answered(frame) => Answered(frame)'
  BY <1>5
<1>7. Talking => Talking'
  BY <1>3, <1>4, <1>5, <1>6 DEF Talking, AsksFor, Quiescent
<1> QED  BY <1>1, <1>2, <1>7 DEF OnTrack

-----------------------------------------------------------------------------
(* The steps that do not happen. *)

(* Without faults the link stays, and without losses every frame arrives.  *)
LEMMA NothingLost ==
    ASSUME EapTypeOK, Undisturbed
    PROVE  ~LinkLost /\ ~FrameLost /\ ~Initiate
BY DEF EapTypeOK, SupplicantTypeOK, LinkTypeOK, Undisturbed, LinkLost, PhyDown,
       FrameLost, Initiate

(* A TLS Start that finds the input buffer empty makes a ClientHello.      *)
LEMMA CleanStart ==
    ASSUME EapTypeOK, Holding(0, 0), NEW r \in StartResult
    PROVE  r.ret = "WANT_READ" /\ r.eaten = 0 /\ r.left = <<>>
<1>1. s_tls_in = <<>> /\ DOMAIN s_tls_in = {} /\ Len(s_tls_in) = 0
  BY DEF Holding, EapTypeOK, SupplicantTypeOK
<1>2. Follows((engine.hs + 1) % Epochs, 0, s_tls_in)
  BY <1>1 DEF Follows
<1> QED  BY <1>1, <1>2, Numbers DEF StartResult, Handshake

(* The device neither panics nor aborts. *)
LEMMA NoRestart == ASSUME EapTypeOK, OnTrack PROVE ~DeviceRestarts
<1>1. ~StartAborts
  BY DEF OnTrack, Starting, Talking, Ended, StartAborts
<1>2. ASSUME toDevice # <<>>, rx = "idle", StartPanics(Head(toDevice)) PROVE FALSE
  <2>1. CASE Talking
    <3>1. Head(toDevice) = request /\ Expects /\ main = "running"
      BY <1>2, <2>1 DEF Talking, Quiescent
    <3>2. request.kind = "Start"
      BY <1>2, <3>1 DEF StartPanics
    <3>3. Holding(0, 0)
      BY <3>1, <3>2 DEF Expects, AsksFor
    <3> QED  BY <1>2, <3>1, <3>3, CleanStart DEF StartPanics
  <2>2. CASE Ended
    <3>1. 1 \in DOMAIN toDevice /\ Head(toDevice) = toDevice[1]
      BY <1>2 DEF EapTypeOK
    <3>2. Head(toDevice).kind = "Success"
      BY <2>2, <3>1 DEF Ended
    <3> QED  BY <1>2, <3>2 DEF StartPanics
  <2>3. CASE Starting
    BY <1>2, <2>3 DEF Starting
  <2> QED  BY <2>1, <2>2, <2>3 DEF OnTrack
<1> QED  BY <1>1, <1>2 DEF DeviceRestarts

(* The authenticator repeats the one request that is not answered, so it   *)
(* never gives up.                                                         *)
LEMMA NoGivingUp == ASSUME EapTypeOK, Undisturbed, OnTrack PROVE ~GiveUp
<1> SUFFICES ASSUME GiveUp PROVE FALSE
  OBVIOUS
<1>1. request # Nil /\ Quiescent /\ retries = MaxRetries /\ MaxRetries >= 1
  BY DEF GiveUp, Undisturbed
<1>2. Talking
  BY <1>1 DEF OnTrack, Starting, Ended
<1>3. retries = 0
  BY <1>1, <1>2 DEF Talking, Quiescent
<1> QED  BY <1>1, <1>3

-----------------------------------------------------------------------------
(* The device receives. *)

(* A part of the first flight but the last is put to the others. *)
LEMMA StoresPart ==
    ASSUME EapTypeOK, Undisturbed, NEW k \in 1..(FlightParts - 1),
           request # Nil, AsksFor(k), s_state = "KEY_EXCHANGE", Holding(0, k - 1),
           eap_frame_handler(request)
    PROVE  /\ s_state' = "KEY_EXCHANGE" /\ Respond(request, "Ack")
           /\ engine' = engine /\ Holding(0, k)'
<1>1. /\ FlightParts \in Nat /\ InCap \in Nat /\ Len(s_tls_in) = k - 1
      /\ FlightParts <= InCap /\ s_tls_in \in Seq(Chunks)
      /\ request.kind = "Data" /\ request.part = k /\ request.hs = engine.hs
  BY Numbers DEF EapTypeOK, SupplicantTypeOK, Undisturbed, Holding, AsksFor
<1>2. DataStored(request)
  BY <1>1 DEF eap_frame_handler, HandleIdentity, StartAnswered, StartOverflows,
              DataOverflows, DataProcessed, HandleSuccess, HandleFailure, IsFragment
<1>3. /\ s_state' = "KEY_EXCHANGE" /\ Respond(request, "Ack")
      /\ engine' = engine /\ send_buf' = send_buf
      /\ s_tls_in' = Append(s_tls_in, Chunk(request))
  BY <1>2 DEF DataStored
<1>4. Chunk(request) = [hs |-> engine.hs, part |-> k]
  BY <1>1 DEF Chunk
<1>5. Holding(0, k)'
  <2>1. engine'.eaten = 0 /\ send_buf' = Nil /\ Len(s_tls_in') = k
    BY <1>1, <1>3 DEF Holding
  <2>2. ASSUME NEW i \in 1..k PROVE s_tls_in'[i] = [hs |-> engine'.hs, part |-> i]
    BY <1>1, <1>3, <1>4 DEF Holding
  <2> QED  BY <2>1, <2>2 DEF Holding
<1> QED  BY <1>3, <1>5

(* With the last part the engine eats the flight and answers by its own.   *)
LEMMA EatsFlight ==
    ASSUME EapTypeOK, Undisturbed, request # Nil, AsksFor(FlightParts),
           s_state = "KEY_EXCHANGE", Holding(0, FlightParts - 1),
           eap_frame_handler(request)
    PROVE  /\ s_state' = "CHANGE_CIPHER_SPEC" /\ Respond(request, "Flight2")
           /\ engine'.hs = engine.hs /\ Holding(FlightParts, 0)'
<1>1. /\ FlightParts \in Nat \ {0} /\ InCap \in Nat /\ Len(s_tls_in) = FlightParts - 1
      /\ FlightParts <= InCap /\ s_tls_in \in Seq(Chunks)
      /\ request.kind = "Data" /\ request.part = FlightParts /\ request.hs = engine.hs
      /\ engine.eaten = 0 /\ send_buf = Nil
      /\ engine \in [hs : 0..(Epochs - 1), eaten : 0..Broken]
  BY Numbers DEF EapTypeOK, SupplicantTypeOK, Undisturbed, Holding, AsksFor
<1>2. DataProcessed(request)
  BY <1>1 DEF eap_frame_handler, HandleIdentity, StartAnswered, StartOverflows,
              DataOverflows, DataStored, HandleSuccess, HandleFailure, IsFragment
<1> DEFINE input == Append(s_tls_in, Chunk(request))
<1>3. Chunk(request) = [hs |-> engine.hs, part |-> FlightParts]
  BY <1>1 DEF Chunk
<1>4. Len(input) = FlightParts /\ DOMAIN input = 1..FlightParts
  BY <1>1
<1>5. Follows(engine.hs, 0, input)
  <2>1. ASSUME NEW i \in 1..FlightParts
        PROVE  input[i] = [hs |-> engine.hs, part |-> i]
    BY <1>1, <1>3 DEF Holding
  <2> HIDE DEF input
  <2> QED  BY <1>1, <1>4, <2>1, Numbers DEF Follows
<1> HIDE DEF input
<1>6. ASSUME NEW r \in Handshake(engine.hs, 0, Nil, input)
      PROVE  r.eaten = FlightParts /\ r.buf = "Flight2" /\ r.ret = "WANT_READ"
  BY <1>1, <1>4, <1>5, Numbers DEF Handshake
<1>7. /\ s_state' = "CHANGE_CIPHER_SPEC" /\ Respond(request, "Flight2")
      /\ s_tls_in' = <<>> /\ send_buf' = Nil
      /\ engine' = [engine EXCEPT !.eaten = FlightParts]
  <2>1. "Flight2" # Nil
    BY NilAssumption
  <2> QED  BY <1>1, <1>2, <1>6, <2>1 DEF DataProcessed, input
<1>8. engine'.hs = engine.hs /\ engine'.eaten = FlightParts
  BY <1>1, <1>7
<1> QED  BY <1>7, <1>8 DEF Holding

(* The last flight of the server completes the handshake, in silence. *)
LEMMA EatsLastFlight ==
    ASSUME EapTypeOK, Undisturbed, request # Nil, AsksFor(Over),
           s_state = "CHANGE_CIPHER_SPEC", Holding(FlightParts, 0),
           eap_frame_handler(request)
    PROVE  /\ s_state' = "AUTHENTICATED" /\ Silent
           /\ engine'.hs = engine.hs /\ Holding(Over, 0)'
<1>1. /\ FlightParts \in Nat \ {0} /\ InCap \in Nat \ {0} /\ Len(s_tls_in) = 0
      /\ s_tls_in = <<>> /\ Over = FlightParts + 1 /\ Broken = FlightParts + 2
      /\ request.kind = "Data" /\ request.part = Over /\ request.hs = engine.hs
      /\ engine.eaten = FlightParts /\ send_buf = Nil
      /\ engine \in [hs : 0..(Epochs - 1), eaten : 0..Broken]
  BY Numbers DEF EapTypeOK, SupplicantTypeOK, Holding, AsksFor
<1>2. DataProcessed(request)
  BY <1>1 DEF eap_frame_handler, HandleIdentity, StartAnswered, StartOverflows,
              DataOverflows, DataStored, HandleSuccess, HandleFailure
<1> DEFINE input == Append(s_tls_in, Chunk(request))
<1>3. Len(input) = 1 /\ input[1] = [hs |-> engine.hs, part |-> Over] /\ DOMAIN input = {1}
  BY <1>1 DEF Chunk
<1>4. Follows(engine.hs, FlightParts, input)
  BY <1>1, <1>3 DEF Follows
<1> HIDE DEF input
<1>5. ASSUME NEW r \in Handshake(engine.hs, FlightParts, Nil, input)
      PROVE  r.eaten = Over /\ r.buf = Nil /\ r.ret = "ERROR" /\ r.left = <<>>
  BY <1>1, <1>3, <1>4 DEF Handshake
<1>6. /\ s_state' = "AUTHENTICATED" /\ Silent
      /\ s_tls_in' = <<>> /\ send_buf' = Nil
      /\ engine' = [engine EXCEPT !.eaten = Over]
  BY <1>1, <1>2, <1>5 DEF DataProcessed, input
<1>7. engine'.hs = engine.hs /\ engine'.eaten = Over
  BY <1>1, <1>6
<1> QED  BY <1>6, <1>7 DEF Holding

LEMMA TrackReceive ==
    ASSUME EapTypeOK, Undisturbed, OnTrack, DeviceReceives
    PROVE  OnTrack'
<1>0. ~Starting
  BY DEF Starting, DeviceReceives
<1>1. CASE Ended
  <2>1. /\ 1 \in DOMAIN toDevice /\ Head(toDevice) = toDevice[1]
        /\ toDevice' = Tail(toDevice) /\ toDevice \in Seq(Packets)
    BY DEF DeviceReceives, EapTypeOK
  <2>2. Head(toDevice).kind = "Success"
    BY <1>1, <2>1 DEF Ended
  <2>3. \A i \in DOMAIN toDevice' : toDevice'[i].kind = "Success"
    BY <1>1, <2>1 DEF Ended
  <2>4. UNCHANGED <<request, authorized, main, toServer, rx>>
    BY <2>2 DEF DeviceReceives, eap_frame_handler, HandleIdentity, StartAnswered,
       StartOverflows, DataOverflows, DataStored, DataProcessed, HandleSuccess,
       HandleFailure, Silent
  <2> QED  BY <1>1, <2>3, <2>4 DEF OnTrack, Ended
<1>2. CASE Talking
  <2>1. /\ toDevice = <<request>> /\ toServer = <<>> /\ rx = "idle" /\ Expects
        /\ request # Nil /\ request.id = eap_id /\ main = "running"
    BY <1>2 DEF Talking, DeviceReceives, Quiescent
  <2>2. /\ eap_frame_handler(request) /\ toDevice' = <<>>
        /\ UNCHANGED <<request, retries, eap_id, main, toServer>>
    BY <2>1 DEF DeviceReceives, eap_frame_handler
  <2>3. FlightParts \in Nat \ {0} /\ Over = FlightParts + 1
    BY Numbers
  <2>4. SUFFICES \/ rx' = "built" /\ Answered(frame)'
                 \/ /\ Quiescent' /\ retries' = 0 /\ AsksFor(Over)'
                    /\ s_state' = "AUTHENTICATED" /\ Holding(Over, 0)'
    BY <2>1, <2>2 DEF OnTrack, Talking
  <2>5. CASE request.kind = "Identity"
    <3>1. s_state' = "IDENTITY_SENT" /\ UNCHANGED tlsVars /\ Respond(request, "Identity")
          /\ Holding(0, 0)
      BY <2>1, <2>2, <2>5 DEF Expects, AsksFor, eap_frame_handler, HandleIdentity,
         StartAnswered, StartOverflows, DataOverflows, DataStored, DataProcessed,
         HandleSuccess, HandleFailure
    <3>2. Holding(0, 0)'
      BY <3>1 DEF Holding, tlsVars
    <3> QED  BY <2>1, <2>2, <2>5, <3>1, <3>2 DEF Answered, Respond
  <2>6. CASE request.kind = "Start"
    <3>1. Holding(0, 0)
      BY <2>1, <2>6 DEF Expects, AsksFor
    <3>2. StartAnswered(request)
      BY <2>2, <2>6, <3>1, CleanStart DEF eap_frame_handler, HandleIdentity,
         StartOverflows, DataOverflows, DataStored, DataProcessed,
         HandleSuccess, HandleFailure
    <3>3. PICK r \in StartResult :
             engine' = [hs |-> (engine.hs + 1) % Epochs, eaten |-> r.eaten]
      BY <3>2 DEF StartAnswered
    <3>4. r.eaten = 0
      BY <3>1, CleanStart
    <3>5. /\ engine'.eaten = 0 /\ s_tls_in' = <<>> /\ send_buf' = Nil
          /\ s_state' = "KEY_EXCHANGE" /\ Respond(request, "ClientHello")
      BY <3>2, <3>3, <3>4 DEF StartAnswered
    <3>6. Holding(0, 0)'
      BY <3>5 DEF Holding
    <3> QED  BY <2>1, <2>2, <2>6, <3>5, <3>6 DEF Answered, Respond
  <2>7. CASE \E k \in 1..FlightParts :
                AsksFor(k) /\ s_state = "KEY_EXCHANGE" /\ Holding(0, k - 1)
    <3>1. PICK k \in 1..FlightParts :
             AsksFor(k) /\ s_state = "KEY_EXCHANGE" /\ Holding(0, k - 1)
      BY <2>7
    <3>2. CASE k = FlightParts
      <4>1. /\ s_state' = "CHANGE_CIPHER_SPEC" /\ Respond(request, "Flight2")
            /\ engine'.hs = engine.hs /\ Holding(FlightParts, 0)'
        BY <2>1, <2>2, <3>1, <3>2, EatsFlight
      <4>2. AsksFor(FlightParts)'
        BY <2>2, <3>1, <3>2, <4>1 DEF AsksFor
      <4>3. /\ rx' = "built" /\ frame'.kind = "Flight2" /\ frame'.id = eap_id'
            /\ frame'.hs = engine'.hs
        BY <2>1, <2>2, <4>1 DEF Respond
      <4> QED  BY <4>1, <4>2, <4>3 DEF Answered
    <3>3. CASE k # FlightParts
      <4>1. k \in 1..(FlightParts - 1)
        BY <2>3, <3>3
      <4>2. /\ s_state' = "KEY_EXCHANGE" /\ Respond(request, "Ack")
            /\ engine' = engine /\ Holding(0, k)'
        BY <2>1, <2>2, <3>1, <4>1, StoresPart
      <4>3. AsksFor(k)'
        BY <2>2, <3>1, <4>2 DEF AsksFor
      <4>4. rx' = "built" /\ frame'.kind = "Ack" /\ frame'.id = eap_id'
        BY <2>1, <2>2, <4>2 DEF Respond
      <4> QED  BY <4>1, <4>2, <4>3, <4>4 DEF Answered
    <3> QED  BY <3>2, <3>3
  <2>8. CASE /\ AsksFor(Over) /\ s_state = "CHANGE_CIPHER_SPEC"
             /\ Holding(FlightParts, 0) /\ retries = 0
    <3>1. /\ s_state' = "AUTHENTICATED" /\ Silent
          /\ engine'.hs = engine.hs /\ Holding(Over, 0)'
      BY <2>1, <2>2, <2>8, EatsLastFlight
    <3>2. AsksFor(Over)'
      BY <2>2, <2>8, <3>1 DEF AsksFor
    <3>3. Quiescent' /\ retries' = 0
      BY <2>1, <2>2, <2>8, <3>1 DEF Quiescent, Silent
    <3> QED  BY <3>1, <3>2, <3>3
  <2>9. CASE AsksFor(Over) /\ s_state = "AUTHENTICATED" /\ Holding(Over, 0)
    <3>1. Len(s_tls_in) = 0 /\ InCap \in Nat \ {0} /\ request.kind = "Data"
      BY <2>9, Numbers DEF Holding, AsksFor
    <3>2. DataStored(request)
      BY <2>2, <2>9, <3>1 DEF eap_frame_handler, HandleIdentity, StartAnswered,
         StartOverflows, DataOverflows, DataProcessed, HandleSuccess, HandleFailure
    <3>3. engine' = engine /\ Respond(request, "Ack")
      BY <2>9, <3>2 DEF DataStored
    <3>4. AsksFor(Over)'
      BY <2>2, <2>9, <3>3 DEF AsksFor
    <3>5. rx' = "built" /\ frame'.kind = "Ack" /\ frame'.id = eap_id'
      BY <2>1, <2>2, <3>3 DEF Respond
    <3> QED  BY <3>4, <3>5 DEF Answered
  <2> QED  BY <2>1, <2>5, <2>6, <2>7, <2>8, <2>9 DEF Expects
<1> QED  BY <1>0, <1>1, <1>2 DEF OnTrack

-----------------------------------------------------------------------------
(* The authenticator. *)

(* It has taken the only frame, and asks next what the device expects. *)
LEMMA AsksNext ==
    ASSUME OnTrack, main = "running", rx = "idle", toDevice = <<>>, NEW p \in Packets,
           Ask(p), toServer' = <<>>,
           UNCHANGED <<main, rx, s_state, tlsVars>>,
           \/ p.kind = "Identity" /\ s_state = "START" /\ Holding(0, 0)
           \/ p.kind = "Start" /\ s_state = "IDENTITY_SENT" /\ Holding(0, 0)
           \/ \E k \in 1..FlightParts :
                 /\ p.kind = "Data" /\ p.part = k /\ p.hs = engine.hs
                 /\ s_state = "KEY_EXCHANGE" /\ Holding(0, k - 1)
           \/ /\ p.kind = "Data" /\ p.part = Over /\ p.hs = engine.hs
              /\ s_state = "CHANGE_CIPHER_SPEC" /\ Holding(FlightParts, 0)
    PROVE  OnTrack'
<1>1. /\ request' = p /\ eap_id' = p.id /\ retries' = 0 /\ toDevice' = <<p>>
      /\ p # Nil
  BY NilAssumption DEF Ask
<1>2. ASSUME NEW a, NEW n, Holding(a, n) PROVE Holding(a, n)'
  BY <1>2 DEF Holding, tlsVars
<1>3. ASSUME NEW k, p.kind = "Data", p.part = k, p.hs = engine.hs
      PROVE  AsksFor(k)'
  BY <1>1, <1>3 DEF AsksFor, tlsVars
<1>4. Expects'
  <2>1. CASE p.kind = "Identity" /\ s_state = "START" /\ Holding(0, 0)
    BY <1>1, <1>2, <2>1 DEF Expects
  <2>2. CASE p.kind = "Start" /\ s_state = "IDENTITY_SENT" /\ Holding(0, 0)
    BY <1>1, <1>2, <2>2 DEF Expects
  <2>3. CASE \E k \in 1..FlightParts :
                /\ p.kind = "Data" /\ p.part = k /\ p.hs = engine.hs
                /\ s_state = "KEY_EXCHANGE" /\ Holding(0, k - 1)
    <3>1. PICK k \in 1..FlightParts :
             /\ p.kind = "Data" /\ p.part = k /\ p.hs = engine.hs
             /\ s_state = "KEY_EXCHANGE" /\ Holding(0, k - 1)
      BY <2>3
    <3>2. AsksFor(k)' /\ s_state' = "KEY_EXCHANGE" /\ Holding(0, k - 1)'
      BY <1>2, <1>3, <3>1
    <3> QED  BY <3>2 DEF Expects
  <2>4. CASE /\ p.kind = "Data" /\ p.part = Over /\ p.hs = engine.hs
             /\ s_state = "CHANGE_CIPHER_SPEC" /\ Holding(FlightParts, 0)
    BY <1>1, <1>2, <1>3, <2>4 DEF Expects
  <2> QED  BY <2>1, <2>2, <2>3, <2>4
<1> QED  BY <1>1, <1>4 DEF OnTrack, Talking

LEMMA PacketFields ==
    \A kind, hs, part :
       /\ Packet(kind, hs, part).kind = kind
       /\ Packet(kind, hs, part).hs = hs
       /\ Packet(kind, hs, part).part = part
BY DEF Packet

LEMMA TrackServer ==
    ASSUME EapTypeOK, Undisturbed, OnTrack, ServerReceives
    PROVE  OnTrack' /\ (request # Nil /\ request' = Nil => authorized')
<1> DEFINE r == Head(toServer)
<1>0. /\ toServer # <<>> /\ toServer' = Tail(toServer) /\ main # "sent"
      /\ UNCHANGED <<main, rx, s_state, tlsVars>>
      /\ AuthTypes /\ Nil \notin Packets
  BY NilAssumption DEF ServerReceives, Undisturbed, EapTypeOK, AuthTypes
<1>1. CASE Starting
  <2>1. /\ toServer = <<EapolStart>> /\ s_state = "START" /\ main = "running"
        /\ toDevice = <<>> /\ rx = "idle" /\ Holding(0, 0) /\ request = Nil
    BY <1>0, <1>1 DEF Starting
  <2>2. Ask(Packet("Identity", 0, 0)) /\ toServer' = <<>>
    BY <1>0, <2>1 DEF ServerReceives, EapolStart
  <2>3. Packet("Identity", 0, 0) \in Packets /\ Packet("Identity", 0, 0).kind = "Identity"
    <3>1. 0 \in 0..(Epochs - 1) /\ 0 \in 0..Over
      BY Numbers
    <3> QED  BY <1>0, <3>1, PacketTypes, PacketFields
  <2> QED  BY <1>0, <2>1, <2>2, <2>3, AsksNext
<1>2. CASE Talking
  <2>1. /\ request # Nil /\ request.id = eap_id /\ main = "running"
        /\ toDevice = <<>> /\ rx = "idle"
    BY <1>0, <1>2 DEF Talking, Quiescent
  <2>2. toServer = <<r>> /\ r \in Replies /\ Answered(r)
    BY <1>0, <1>2 DEF Talking, Quiescent
  <2>3. r.id = eap_id /\ r.kind # "EapolStart" /\ toServer' = <<>>
    BY <1>0, <2>2 DEF Answered
  <2>4. FlightParts \in Nat \ {0} /\ Over = FlightParts + 1
    BY Numbers
  <2>5. CASE Finishes(r)
    <3>1. Finish("Success")
      BY <2>1, <2>3, <2>5 DEF ServerReceives
    <3>2. request' = Nil /\ toDevice' = <<Packet("Success", 0, 0)>>
      BY <2>1, <3>1 DEF Finish, Packet
    <3>3. authorized'
      BY <3>1, Zenon DEF Finish
    <3>4. \A i \in DOMAIN toDevice' : toDevice'[i].kind = "Success"
      BY <3>2 DEF Packet
    <3> QED  BY <1>0, <2>1, <2>3, <3>2, <3>3, <3>4 DEF OnTrack, Ended
  <2>6. CASE ~Finishes(r)
    <3>1. SUFFICES ASSUME NEW p \in Packets, Following(r) = p,
                     \/ p.kind = "Start" /\ s_state = "IDENTITY_SENT" /\ Holding(0, 0)
                     \/ \E k \in 1..FlightParts :
                           /\ p.kind = "Data" /\ p.part = k /\ p.hs = engine.hs
                           /\ s_state = "KEY_EXCHANGE" /\ Holding(0, k - 1)
                     \/ /\ p.kind = "Data" /\ p.part = Over /\ p.hs = engine.hs
                        /\ s_state = "CHANGE_CIPHER_SPEC" /\ Holding(FlightParts, 0)
                   PROVE  OnTrack' /\ (request # Nil /\ request' = Nil => authorized')
      <4>1. CASE request.kind = "Identity" /\ r.kind = "Identity"
        <5>1. Following(r) = Packet("Start", 0, 0)
          BY <4>1 DEF Following
        <5>2. Following(r) \in Packets /\ Following(r).kind = "Start"
          <6>1. 0 \in 0..(Epochs - 1) /\ 0 \in 0..Over
            BY Numbers
          <6>2. Packet("Start", 0, 0) \in Packets
            BY <1>0, <6>1, PacketTypes
          <6> QED  BY <5>1, <6>2, PacketFields
        <5>3. s_state = "IDENTITY_SENT" /\ Holding(0, 0)
          BY <2>2, <4>1 DEF Answered, AsksFor
        <5> QED  BY <3>1, <5>2, <5>3
      <4>2. CASE /\ request.kind = "Start" /\ r.kind = "ClientHello" /\ r.hs = engine.hs
                 /\ s_state = "KEY_EXCHANGE" /\ Holding(0, 0)
        <5>1. Following(r) = Packet("Data", r.hs, 1)
          BY <4>2 DEF Following
        <5>2. r.hs \in 0..(Epochs - 1) /\ 1 \in 0..Over
          BY <2>2, <2>4 DEF Replies
        <5>3. /\ Following(r) \in Packets /\ Following(r).kind = "Data"
              /\ Following(r).part = 1 /\ Following(r).hs = engine.hs
          <6>1. Packet("Data", r.hs, 1) \in Packets
            BY <1>0, <5>2, PacketTypes
          <6> QED  BY <4>2, <5>1, <6>1, PacketFields
        <5>4. 1 \in 1..FlightParts /\ 1 - 1 = 0
          BY <2>4
        <5>5. Holding(0, 1 - 1)
          BY <4>2, <5>4
        <5> QED  BY <3>1, <4>2, <5>3, <5>4, <5>5
      <4>3. CASE \E k \in 1..(FlightParts - 1) :
                    /\ AsksFor(k) /\ r.kind = "Ack"
                    /\ s_state = "KEY_EXCHANGE" /\ Holding(0, k)
        <5>1. PICK k \in 1..(FlightParts - 1) :
                 /\ AsksFor(k) /\ r.kind = "Ack"
                 /\ s_state = "KEY_EXCHANGE" /\ Holding(0, k)
          BY <4>3
        <5>2. Following(r) = Packet("Data", request.hs, k + 1)
          BY <2>4, <5>1 DEF Following, AsksFor
        <5>3. /\ request.hs \in 0..(Epochs - 1) /\ k + 1 \in 0..Over /\ k + 1 # 0
              /\ k + 1 \in 1..FlightParts /\ (k + 1) - 1 = k
          BY <1>0, <2>1, <2>4 DEF AuthTypes, Packets
        <5>4. /\ Following(r) \in Packets /\ Following(r).kind = "Data"
              /\ Following(r).part = k + 1 /\ Following(r).hs = engine.hs
          <6>1. Packet("Data", request.hs, k + 1) \in Packets
            BY <1>0, <5>3, PacketTypes
          <6>2. request.hs = engine.hs
            BY <5>1 DEF AsksFor
          <6> QED  BY <5>2, <6>1, <6>2, PacketFields
        <5>5. Holding(0, (k + 1) - 1)
          BY <5>1, <5>3
        <5> QED  BY <3>1, <5>1, <5>3, <5>4, <5>5
      <4>4. CASE /\ AsksFor(FlightParts) /\ r.kind = "Flight2" /\ r.hs = engine.hs
                 /\ s_state = "CHANGE_CIPHER_SPEC" /\ Holding(FlightParts, 0)
        <5>1. Following(r) = Packet("Data", request.hs, Over)
          BY <2>4, <4>4 DEF Following, AsksFor
        <5>2. request.hs \in 0..(Epochs - 1) /\ Over \in 0..Over /\ Over # 0
          BY <1>0, <2>1, <2>4 DEF AuthTypes, Packets
        <5>3. /\ Following(r) \in Packets /\ Following(r).kind = "Data"
              /\ Following(r).part = Over /\ Following(r).hs = engine.hs
          <6>1. Packet("Data", request.hs, Over) \in Packets
            BY <1>0, <5>2, PacketTypes
          <6>2. request.hs = engine.hs
            BY <4>4 DEF AsksFor
          <6> QED  BY <5>1, <6>1, <6>2, PacketFields
        <5> QED  BY <3>1, <4>4, <5>3
      <4> QED  BY <2>2, <2>6, <4>1, <4>2, <4>3, <4>4 DEF Answered, Finishes, AsksFor
    <3>2. Ask(p)
      BY <1>0, <2>1, <2>3, <2>6, <3>1 DEF ServerReceives
    <3>3. request' # Nil
      BY <1>0, <3>1, <3>2 DEF Ask
    <3> QED  BY <1>0, <2>1, <2>3, <3>1, <3>2, <3>3, AsksNext
  <2> QED  BY <2>5, <2>6
<1>3. ~Ended
  BY <1>0 DEF Ended
<1> QED  BY <1>1, <1>2, <1>3 DEF OnTrack, Starting

(* The only request it repeats is the last. *)
LEMMA TrackRetransmit ==
    ASSUME EapTypeOK, OnTrack, Retransmit
    PROVE  OnTrack'
<1>1. /\ request # Nil /\ Quiescent /\ toDevice' = <<request>>
      /\ UNCHANGED <<request, eap_id, s_state, tlsVars, main, rx, toServer>>
  BY DEF Retransmit, supplicantVars, tlsVars
<1>2. Talking
  BY <1>1 DEF OnTrack, Starting, Ended
<1>3. /\ request.id = eap_id /\ main = "running"
      /\ AsksFor(Over) /\ s_state = "AUTHENTICATED" /\ Holding(Over, 0)
  BY <1>1, <1>2 DEF Talking, Quiescent
<1>4. AsksFor(Over)' /\ s_state' = "AUTHENTICATED" /\ Holding(Over, 0)'
  BY <1>1, <1>3 DEF AsksFor, Holding, tlsVars
<1> QED  BY <1>1, <1>3, <1>4 DEF OnTrack, Talking, Expects, Quiescent

-----------------------------------------------------------------------------
(* The tasks of the device. *)

LEMMA TrackTransmit ==
    ASSUME EapTypeOK, OnTrack, DeviceTransmits
    PROVE  OnTrack'
<1>1. /\ rx = "built" /\ rx' = "idle" /\ toServer' = Append(toServer, frame)
      /\ UNCHANGED <<s_state, tlsVars, main, toDevice, request, eap_id>>
      /\ frame \in Replies
  BY DEF DeviceTransmits, RxTransmit, authVars, EapTypeOK, SupplicantTypeOK
<1>2. /\ request # Nil /\ request.id = eap_id /\ main = "running"
      /\ toDevice = <<>> /\ toServer = <<>> /\ Answered(frame)
  BY <1>1 DEF OnTrack, Starting, Ended, Talking, Quiescent
<1>3. ASSUME NEW a, NEW n, Holding(a, n) PROVE Holding(a, n)'
  BY <1>1, <1>3 DEF Holding, tlsVars
<1>4. ASSUME NEW f, Answered(f) PROVE Answered(f)'
  BY <1>1, <1>3, <1>4 DEF Answered, AsksFor, tlsVars
<1>5. PICK f : f = frame
  OBVIOUS
<1>6. f \in Replies /\ Answered(f)' /\ toServer' = <<f>>
  BY <1>1, <1>2, <1>4, <1>5
<1> QED  BY <1>1, <1>2, <1>6 DEF OnTrack, Talking

LEMMA TrackMain == ASSUME OnTrack, MainRuns PROVE OnTrack'
<1>1. CASE Starting
  <2>1. /\ UNCHANGED <<tlsVars, rx, toDevice, request>>
        /\ Holding(0, 0) /\ rx = "idle" /\ toDevice = <<>> /\ request = Nil
    BY <1>1 DEF Starting, MainRuns, MainStep, TlsInit, StartAllowed, BuildStart,
       TransmitStart, StoreStart, authVars
  <2>2. Holding(0, 0)'
    BY <2>1 DEF Holding, tlsVars
  <2>3. \/ /\ main' \in {"booting", "initialised", "waiting", "built"}
           /\ main' = "built" => frame' = EapolStart
           /\ toServer' = <<>>
           /\ s_state' = "IDLE"
        \/ main' = "sent" /\ toServer' = <<EapolStart>> /\ s_state' = "IDLE"
        \/ main' = "running" /\ toServer' = <<EapolStart>> /\ s_state' = "START"
    <3>1. CASE TlsInit \/ StartAllowed \/ BuildStart
      BY <1>1, <3>1 DEF Starting, TlsInit, StartAllowed, BuildStart, MainTo
    <3>2. CASE TransmitStart
      <4>1. /\ main' = "sent" /\ frame = EapolStart /\ toServer = <<>>
            /\ s_state = "IDLE" /\ s_state' = s_state
        BY <1>1, <3>2 DEF Starting, TransmitStart, MainTo
      <4>2. toServer' = Append(<<>>, EapolStart)
        BY <3>2, <4>1 DEF TransmitStart
      <4>3. toServer' = <<EapolStart>>
        BY <4>2
      <4> QED  BY <4>1, <4>3
    <3>3. CASE StoreStart
      BY <1>1, <3>3 DEF Starting, StoreStart, MainTo
    <3> QED  BY <3>1, <3>2, <3>3 DEF MainRuns, MainStep
  <2> QED  BY <2>1, <2>2, <2>3 DEF OnTrack, Starting
<1>2. CASE Talking \/ Ended
  BY <1>2 DEF Talking, Ended, MainRuns, MainStep, TlsInit, StartAllowed,
     BuildStart, TransmitStart, StoreStart, MainTo
<1> QED  BY <1>1, <1>2 DEF OnTrack

-----------------------------------------------------------------------------
(* The theorems. *)

LEMMA TrackInit == EapInit => OnTrack
<1> SUFFICES ASSUME EapInit PROVE OnTrack
  OBVIOUS
<1>1. Holding(0, 0)
  BY DEF EapInit, SupplicantInit, Holding
<1> QED  BY <1>1 DEF EapInit, SupplicantInit, OnTrack, Starting

LEMMA TrackNext ==
    ASSUME EapTypeOK, Undisturbed, OnTrack, [EapNext]_eapVars
    PROVE  OnTrack' /\ (request # Nil /\ request' = Nil => authorized')
<1>1. CASE ServerReceives
  BY <1>1, TrackServer
<1>2. CASE DeviceReceives
  BY <1>2, TrackReceive DEF DeviceReceives
<1>3. CASE Retransmit
  BY <1>3, TrackRetransmit DEF Retransmit
<1>4. CASE DeviceTransmits
  BY <1>4, TrackTransmit DEF DeviceTransmits, authVars
<1>5. CASE MainRuns
  BY <1>5, TrackMain DEF MainRuns, authVars
<1>6. CASE LinkStep \/ UNCHANGED eapVars
  <2>1. UNCHANGED trackVars /\ request' = request
    BY <1>6 DEF LinkStep, eapVars, trackVars, supplicantVars, tlsVars, authVars
  <2> QED  BY <2>1, TrackSame
<1> QED
  BY <1>1, <1>2, <1>3, <1>4, <1>5, <1>6, NothingLost, NoRestart, NoGivingUp
  DEF EapNext

(* Without losses and link failures the device and the authenticator stay  *)
(* at the same step of the exchange, and the device neither panics nor     *)
(* aborts (eap_tls_supplicant.c:349-531, 687-690).                         *)
THEOREM StaysOnTrack == ASSUME Undisturbed PROVE EapSpec => []OnTrack
<1>1. EapTypeOK /\ OnTrack /\ [EapNext]_eapVars => OnTrack'
  BY TrackNext
<1> QED  BY <1>1, TrackInit, EapTypeCorrect, PTL DEF EapSpec

(* In that exchange the authenticator ends the session only by opening the *)
(* port, although the supplicant is silent on its last flight and          *)
(* acknowledges only the repetition (eap_tls_supplicant.c:514-531).        *)
THEOREM NoRejection == ASSUME Undisturbed PROVE EapSpec => NeverRejected
<1>1. EapTypeOK /\ OnTrack /\ [EapNext]_eapVars
         => [request # Nil /\ request' = Nil => authorized']_eapVars
  BY TrackNext
<1> QED
  BY <1>1, StaysOnTrack, EapTypeCorrect, PTL DEF EapSpec, NeverRejected

=============================================================================
