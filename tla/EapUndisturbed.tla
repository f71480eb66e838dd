--------------------------- MODULE EapUndisturbed ---------------------------
(***************************************************************************)
(* The inductive invariant of an exchange without losses and link          *)
(* failures: one frame at a time goes to and fro, and the state of the     *)
(* supplicant is that of the request it is to receive or has answered.     *)
(***************************************************************************)
EXTENDS EapExchange

(* No frame and no link is lost, the authenticator waits for EAPOL-Start,  *)
(* repeats a request at least once, and its flight fits into s_tls_in.     *)
Undisturbed ==
    /\ MaxLosses = 0
    /\ MaxFaults = 0
    /\ ~Initiates
    /\ MainKeepsUp
    /\ MaxRetries >= 1
    /\ InCap >= FlightParts

(* The engine has eaten so many parts, has no output left, and the first n *)
(* parts of the handshake are in the input buffer.                         *)
Holding(eaten, n) ==
    /\ engine.eaten = eaten
    /\ send_buf = Nil
    /\ Len(s_tls_in) = n
    /\ \A i \in 1..n : s_tls_in[i] = [hs |-> engine.hs, part |-> i]

(* Until the authenticator has taken EAPOL-Start. *)
Starting ==
    /\ request = Nil
    /\ toDevice = <<>>
    /\ rx = "idle"
    /\ Holding(0, 0)
    /\ \/ /\ main \in {"booting", "initialised", "waiting", "built"}
          /\ main = "built" => frame = EapolStart
          /\ toServer = <<>>
          /\ s_state = "IDLE"
       \/ main = "sent" /\ toServer = <<EapolStart>> /\ s_state = "IDLE"
       \/ main = "running" /\ toServer = <<EapolStart>> /\ s_state = "START"

AsksFor(part) == request.kind = "Data" /\ request.part = part /\ request.hs = engine.hs

(* The supplicant is where the request finds it: the last flight the first *)
(* time or again, or anything before.                                      *)
Expects ==
    \/ request.kind = "Identity" /\ s_state = "START" /\ Holding(0, 0)
    \/ request.kind = "Start" /\ s_state = "IDENTITY_SENT" /\ Holding(0, 0)
    \/ \E k \in 1..FlightParts :
          AsksFor(k) /\ s_state = "KEY_EXCHANGE" /\ Holding(0, k - 1)
    \/ AsksFor(Over) /\ s_state = "CHANGE_CIPHER_SPEC" /\ Holding(FlightParts, 0)
       /\ retries = 0
    \/ AsksFor(Over) /\ s_state = "AUTHENTICATED" /\ Holding(Over, 0)

(* The supplicant has answered the request by f. *)
Answered(f) ==
    /\ f.id = eap_id
    /\ \/ /\ request.kind = "Identity" /\ f.kind = "Identity"
          /\ s_state = "IDENTITY_SENT" /\ Holding(0, 0)
       \/ /\ request.kind = "Start" /\ f.kind = "ClientHello" /\ f.hs = engine.hs
          /\ s_state = "KEY_EXCHANGE" /\ Holding(0, 0)
       \/ \E k \in 1..(FlightParts - 1) :
             /\ AsksFor(k) /\ f.kind = "Ack"
             /\ s_state = "KEY_EXCHANGE" /\ Holding(0, k)
       \/ /\ AsksFor(FlightParts) /\ f.kind = "Flight2" /\ f.hs = engine.hs
          /\ s_state = "CHANGE_CIPHER_SPEC" /\ Holding(FlightParts, 0)
       \/ AsksFor(Over) /\ f.kind = "Ack"

Talking ==
    /\ request # Nil
    /\ request.id = eap_id
    /\ main = "running"
    /\ \/ toDevice = <<request>> /\ toServer = <<>> /\ rx = "idle" /\ Expects
       \/ toDevice = <<>> /\ toServer = <<>> /\ rx = "built" /\ Answered(frame)
       \/ toDevice = <<>> /\ rx = "idle" /\ \E f \in Replies : toServer = <<f>> /\ Answered(f)
       \/ /\ Quiescent /\ retries = 0
          /\ AsksFor(Over) /\ s_state = "AUTHENTICATED" /\ Holding(Over, 0)

Ended ==
    /\ request = Nil
    /\ authorized
    /\ main = "running"
    /\ toServer = <<>>
    /\ rx = "idle"
    /\ \A i \in DOMAIN toDevice : toDevice[i].kind = "Success"

(* The device and the authenticator are at the same step (                 *)
(* eap_tls_supplicant.c:349-531, 687-690).                                 *)
OnTrack == Starting \/ Talking \/ Ended

=============================================================================
