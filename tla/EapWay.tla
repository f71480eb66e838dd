------------------------------- MODULE EapWay -------------------------------
(***************************************************************************)
(* The inductive invariant of the EAP exchange.                            *)
(*                                                                         *)
(* Every frame the device receives it answers at most once, and before it  *)
(* receives the next; the authenticator takes the frames in order and asks *)
(* once for each.  So everything that is under way stands in one line: the *)
(* frames the authenticator has not taken, oldest first, the response in   *)
(* the buffer, the EAPOL-Start that the main task has still to send, and   *)
(* the packets the device has not received.  Only a lost frame, an         *)
(* EAPOL-Start that overtakes or the end of a session changes the line in  *)
(* another way than at its ends.                                           *)
(***************************************************************************)
EXTENDS EapExchange

(* What the line tells of a packet or a response: which step of the        *)
(* exchange it belongs to, and its identifier.                             *)
Topics == {"hello", "identity", "start", "data", "finish"}
Items  == [topic : Topics, id : 0..(Ids - 1)]

Topic(f) ==
    IF f.kind = "EapolStart" THEN "hello"
    ELSE IF f.kind = "Identity" THEN "identity"
    ELSE IF f.kind \in {"Start", "ClientHello"} THEN "start"
    ELSE IF f.kind \in {"Success", "Failure"} THEN "finish"
    ELSE "data"

Item(f) == [topic |-> Topic(f), id |-> f.id]

(* The EAPOL-Start of the main task is still to come, and not overwritten. *)
Pending ==
    \/ main \in {"booting", "initialised", "waiting"}
    \/ main = "built" /\ frame = EapolStart

(* The last places of what is sent, of what is built, and of all that      *)
(* comes before the packets on their way to the device.                    *)
SentEnd  == Len(toServer)
BuiltEnd == SentEnd + (IF rx = "built" THEN 1 ELSE 0)
OwnEnd   == BuiltEnd + (IF Pending THEN 1 ELSE 0)
WayLen   == OwnEnd + Len(toDevice)

Place(i) ==
    IF i <= SentEnd THEN toServer[i]
    ELSE IF i <= BuiltEnd THEN frame
    ELSE IF i <= OwnEnd THEN EapolStart
    ELSE toDevice[i - OwnEnd]

Way == [i \in 1..WayLen |-> Item(Place(i))]

(* What the authenticator waits for. *)
Phase == IF request = Nil THEN "None" ELSE request.kind

(* The responses the device has built and the authenticator not taken.     *)
Answers == {toServer[i] : i \in DOMAIN toServer}
           \cup (IF rx = "built" THEN {frame} ELSE {})

Succ(x) == (x + 1) % Ids

-----------------------------------------------------------------------------
(* Lines v of n items that may be under way when the authenticator is in   *)
(* the phase ph and its last identifier is e.                              *)

(* Nothing but EAPOL-Start comes before data, and no two TLS Starts are    *)
(* under way.                                                              *)
Apart(v, n, ph) ==
    \A i, j \in 1..n : i < j =>
       /\ v[j].topic = "data" => v[i].topic = "hello"
       /\ v[j].topic = "start" => v[i].topic # "start"
       /\ v[i].topic = "identity" /\ v[j].topic = "start"
             => ph \in {"Identity", "Start"}

IdleLine(v, n, e) ==
    /\ n >= 2 /\ v[2].topic = "identity" => e \in {v[2].id, Succ(v[2].id)}
    /\ n = 3 => v[3].topic = "finish"

IdentityLine(v, n, e) ==
    /\ n >= 2 /\ v[2].topic = "identity"
          => e \in {v[2].id, Succ(v[2].id), Succ(Succ(v[2].id))}
    /\ n = 3 /\ v[3].topic = "identity" => v[3].id = e
    /\ \A i, j \in 1..n :
          i < j /\ v[i].topic = "identity" /\ v[j].topic = "start"
             => /\ i = 1 /\ v[i].id # e
                /\ \A k \in 1..n : v[k].topic # "hello"

(* A TLS Start or a ClientHello under way is that of the request.          *)
StartLine(v, n, e) ==
    \A i \in 1..n :
       /\ v[i].topic # "data"
       /\ v[i].topic = "identity" => i # 3 /\ v[i].id # e
       /\ v[i].topic = "start" =>
             /\ v[i].id = e
             /\ \A j \in 1..n : i < j => v[j].topic = "hello"
             /\ \A j, k \in 1..n :
                   k < j /\ j < i /\ v[k].topic = "hello"
                   /\ v[j].topic = "identity" => Succ(v[j].id) = e

(* Nothing is under way but the request or its answer, and EAPOL-Start.    *)
DataLine(v, n, e) ==
    \A i \in 1..n :
       v[i].topic # "hello" => v[i].topic = "data" /\ v[i].id = e

Line(v, n, ph, e) ==
    /\ n <= 3
    /\ Apart(v, n, ph)
    /\ ph = "None" => IdleLine(v, n, e)
    /\ ph = "Identity" => IdentityLine(v, n, e)
    /\ ph = "Start" => StartLine(v, n, e)
    /\ ph = "Data" => DataLine(v, n, e)

-----------------------------------------------------------------------------
(* The invariant. *)

LineOK == Line(Way, WayLen, Phase, eap_id)

(* The request is the last packet on its way to the device, if any is.     *)
RequestOK ==
    request # Nil =>
       /\ request.kind \in {"Identity", "Start", "Data"}
       /\ request.id = eap_id
       /\ toDevice # <<>> => toDevice[Len(toDevice)] = request

(* The device and the authenticator mean the same TLS handshake.           *)
SameHandshake ==
    /\ \A i \in DOMAIN toDevice :
          toDevice[i].kind = "Data" => i = 1 /\ toDevice[i].hs = engine.hs
    /\ Phase = "Data" => request.hs = engine.hs
    /\ Phase = "Start" =>
          \A f \in Answers : f.kind = "ClientHello" => f.hs = engine.hs

(* What is in the input buffer belongs to the handshake of the engine.     *)
CurrentInput ==
    \A i \in DOMAIN s_tls_in : s_tls_in[i].hs = engine.hs

(* How far the engine is, by the state of the supplicant: an engine that   *)
(* is not broken has eaten a flight or nothing.                            *)
EngineOK ==
    /\ s_state = "CHANGE_CIPHER_SPEC" =>
          s_tls_in = <<>> /\ engine.eaten \in {FlightParts, Broken}
    /\ s_state = "KEY_EXCHANGE" /\ engine.eaten # Broken =>
          /\ engine.eaten = 0
          /\ \A i \in DOMAIN s_tls_in : s_tls_in[i].part < FlightParts
    /\ s_state \in {"KEY_EXCHANGE", "CHANGE_CIPHER_SPEC"} /\ send_buf # Nil =>
          send_buf = "Alert" /\ engine.eaten = Broken

(* The last flight of the server is sent only to an engine that has eaten  *)
(* the first, and acknowledged only by one that has eaten both.            *)
LastFlightOK ==
    /\ Phase = "Data" /\ request.part = Over =>
          /\ s_state \in {"CHANGE_CIPHER_SPEC", "AUTHENTICATED", "START", "FAILED"}
          /\ s_state = "CHANGE_CIPHER_SPEC" => engine.eaten = FlightParts
          /\ s_state = "AUTHENTICATED" => engine.eaten = Over
          /\ \A f \in Answers : f.kind = "Ack" => engine.eaten = Over
    /\ Phase = "Data" =>
          \A f \in Answers : f.kind = "Flight2" =>
             /\ engine.eaten = FlightParts
             /\ s_state \in {"CHANGE_CIPHER_SPEC", "START"}
    /\ \A i \in DOMAIN toDevice :
          toDevice[i].kind = "Success" => i = 1 /\ engine.eaten = Over

(* The identifier of EAP is a byte.  With two identifiers an old response  *)
(* passes for the answer to the outstanding request, and InputIsCurrent    *)
(* fails; with three the line is not inductive, for the third identifier   *)
(* after one is that one again.                                            *)
EnoughIds == Ids >= 4

(* Whatever is lost, restarted, unplugged or overtaken, no more than three *)
(* frames are under way, and the handshake the authenticator takes for the *)
(* current one is that of the engine (eap_tls_supplicant.c:349-531).       *)
ExchangeInv ==
    /\ LineOK
    /\ RequestOK
    /\ SameHandshake
    /\ CurrentInput
    /\ EngineOK
    /\ LastFlightOK

=============================================================================
