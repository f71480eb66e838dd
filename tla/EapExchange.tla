----------------------------- MODULE EapExchange -----------------------------
(***************************************************************************)
(* The supplicant, the link and an authenticator (external: it behaves as  *)
(* RFC 3748 and RFC 5216 ask) that exchange frames the link may lose.      *)
(*                                                                         *)
(* The authenticator has one request outstanding at a time and repeats it  *)
(* up to MaxRetries times.  It takes a response only if it carries the     *)
(* identifier of that request, fails the session on a response of the      *)
(* wrong kind, and sends Success, once, when its last flight is            *)
(* acknowledged.  A link that goes down ends the session.                  *)
(***************************************************************************)
EXTENDS Supplicant

CONSTANTS
    MaxRetries,   \* repetitions of a request
    MaxLosses,    \* bound: frames lost
    Initiates,    \* the authenticator starts sessions by itself too
    MainKeepsUp   \* no answer to EAPOL-Start overtakes the store after it

ASSUME EapAssumption ==
    /\ MaxRetries \in Nat
    /\ MaxLosses \in Nat
    /\ Initiates \in BOOLEAN
    /\ MainKeepsUp \in BOOLEAN

VARIABLES
    toDevice,    \* the packets on their way to the device
    request,     \* the outstanding request, or Nil
    retries,
    eap_id,      \* the identifier of the last packet of the authenticator
    authorized,  \* the port of the device is open
    losses

authVars == <<toDevice, request, retries, eap_id, authorized>>
eapVars  == <<phy, events, s_link_up, faults, s_state, s_authenticated,
              s_eap_identifier, s_tls_in, send_buf, engine, main, rx, frame,
              toServer, toDevice, request, retries, eap_id, authorized, losses>>

NewSession ==
    /\ toDevice' = <<>>
    /\ request' = Nil
    /\ retries' = 0
    /\ eap_id' = 0
    /\ authorized' = FALSE

EapInit ==
    /\ LinkInit
    /\ SupplicantInit
    /\ toDevice = <<>>
    /\ request = Nil
    /\ retries = 0
    /\ eap_id = 0
    /\ authorized = FALSE
    /\ losses = 0

-----------------------------------------------------------------------------
(* The authenticator. *)

NextId == (eap_id + 1) % Ids

Packet(kind, hs, part) ==
    [kind |-> kind, id |-> NextId, hs |-> hs, part |-> part]

Ask(p) ==
    /\ request' = p
    /\ eap_id' = p.id
    /\ retries' = 0
    /\ toDevice' = Append(toDevice, p)

(* Success and Failure are not repeated. *)
Finish(kind) ==
    /\ request' = Nil
    /\ eap_id' = NextId
    /\ retries' = 0
    /\ toDevice' = Append(toDevice, Packet(kind, 0, 0))
    /\ authorized' = (kind = "Success")

(* The next request after the response r, or Nil if r is out of turn. *)
Following(r) ==
    CASE request.kind = "Identity" /\ r.kind = "Identity" ->
            Packet("Start", 0, 0)
      [] request.kind = "Start" /\ r.kind = "ClientHello" ->
            Packet("Data", r.hs, 1)
      [] request.kind = "Data" /\ request.part < FlightParts /\ r.kind = "Ack" ->
            Packet("Data", request.hs, request.part + 1)
      [] request.kind = "Data" /\ request.part = FlightParts
            /\ r.kind = "Flight2" /\ r.hs = request.hs ->
            Packet("Data", request.hs, Over)
      [] OTHER -> Nil

Finishes(r) ==
    request.kind = "Data" /\ request.part = Over /\ r.kind = "Ack"

ServerReceives ==
    /\ toServer # <<>>
    /\ MainKeepsUp => main # "sent"
    /\ toServer' = Tail(toServer)
    /\ LET r == Head(toServer) IN
       IF r.kind = "EapolStart"
       THEN Ask(Packet("Identity", 0, 0)) /\ UNCHANGED authorized
       ELSE IF request = Nil \/ r.id # eap_id
       THEN UNCHANGED authVars
       ELSE IF Finishes(r)
       THEN Finish("Success")
       ELSE IF Following(r) = Nil
       THEN Finish("Failure")
       ELSE Ask(Following(r)) /\ UNCHANGED authorized
    /\ UNCHANGED <<linkVars, s_state, s_authenticated, s_eap_identifier,
                   tlsVars, main, rx, frame, losses>>

Initiate ==
    /\ Initiates
    /\ phy
    /\ request = Nil
    /\ toDevice = <<>>
    /\ Ask(Packet("Identity", 0, 0))
    /\ UNCHANGED <<linkVars, supplicantVars, authorized, losses>>

(* Its timer is longer than the time an answer takes: it repeats a request *)
(* and gives up only when nothing is under way.                            *)
Quiescent == toDevice = <<>> /\ toServer = <<>> /\ rx = "idle"

Retransmit ==
    /\ request # Nil
    /\ Quiescent
    /\ retries < MaxRetries
    /\ retries' = retries + 1
    /\ toDevice' = <<request>>
    /\ UNCHANGED <<linkVars, supplicantVars, request, eap_id, authorized, losses>>

GiveUp ==
    /\ request # Nil
    /\ Quiescent
    /\ retries = MaxRetries
    /\ Finish("Failure")
    /\ UNCHANGED <<linkVars, supplicantVars, losses>>

-----------------------------------------------------------------------------
(* The device. *)

DeviceReceives ==
    /\ toDevice # <<>>
    /\ eap_frame_handler(Head(toDevice))
    /\ toDevice' = Tail(toDevice)
    /\ UNCHANGED <<linkVars, request, retries, eap_id, authorized, losses>>

DeviceTransmits ==
    /\ RxTransmit
    /\ UNCHANGED <<linkVars, authVars, losses>>

MainRuns ==
    /\ MainStep
    /\ UNCHANGED <<linkVars, authVars, losses>>

(* A panic or a failed assertion restarts the device, and the reset of the *)
(* PHY takes the link down.                                                *)
DeviceRestarts ==
    /\ \/ toDevice # <<>> /\ rx = "idle" /\ StartPanics(Head(toDevice))
       \/ StartAborts
    /\ SupplicantRestart
    /\ NewSession
    /\ phy' = FALSE
    /\ events' = <<>>
    /\ s_link_up' = FALSE
    /\ UNCHANGED <<faults, losses>>

-----------------------------------------------------------------------------
(* The link. *)

LinkLost ==
    /\ PhyDown
    /\ NewSession
    /\ toServer' = <<>>
    /\ UNCHANGED <<s_state, s_authenticated, s_eap_identifier, tlsVars, main,
                   rx, frame, losses>>

LinkStep ==
    /\ PhyUp \/ GotIp \/ LostIp \/ HandleEvent
    /\ UNCHANGED <<supplicantVars, authVars, losses>>

FrameLost ==
    /\ losses < MaxLosses
    /\ losses' = losses + 1
    /\ \/ toServer # <<>> /\ toServer' = Tail(toServer) /\ UNCHANGED toDevice
       \/ toDevice # <<>> /\ toDevice' = Tail(toDevice) /\ UNCHANGED toServer
    /\ UNCHANGED <<linkVars, s_state, s_authenticated, s_eap_identifier,
                   tlsVars, main, rx, frame, request, retries, eap_id,
                   authorized>>

EapNext ==
    \/ ServerReceives
    \/ Initiate
    \/ Retransmit
    \/ GiveUp
    \/ DeviceReceives
    \/ DeviceTransmits
    \/ MainRuns
    \/ DeviceRestarts
    \/ LinkLost
    \/ LinkStep
    \/ FrameLost

EapSpec == EapInit /\ [][EapNext]_eapVars

(* The tasks of the device run, the event loop delivers, the cable is      *)
(* plugged in some time, and the authenticator answers and repeats.        *)
EapFairSpec ==
    /\ EapSpec
    /\ WF_eapVars(DeviceReceives)
    /\ WF_eapVars(DeviceTransmits)
    /\ WF_eapVars(MainRuns)
    /\ WF_eapVars(PhyUp /\ LinkStep)
    /\ WF_eapVars(HandleEvent /\ LinkStep)
    /\ WF_eapVars(ServerReceives)
    /\ WF_eapVars(Retransmit)
    /\ WF_eapVars(GiveUp)

-----------------------------------------------------------------------------

EapTypeOK ==
    /\ SupplicantTypeOK
    /\ toDevice \in Seq(Packets)
    /\ request \in Packets \cup {Nil}
    /\ retries \in 0..MaxRetries
    /\ eap_id \in 0..(Ids - 1)
    /\ authorized \in BOOLEAN
    /\ losses \in 0..MaxLosses

-----------------------------------------------------------------------------
(* Properties. *)

(* s_authenticated is set only when the TLS engine has verified the last   *)
(* flight of the server: a Success never reaches a supplicant whose own    *)
(* handshake was reset, broken or is unfinished, although the code takes   *)
(* every Success (eap_tls_supplicant.c:687-690).                           *)
SuccessAfterHandshake ==
    [][s_authenticated' /\ ~s_authenticated => engine.eaten = Over]_eapVars

(* A TLS Start finds or leaves no byte of an earlier handshake behind that *)
(* an intact engine would read: nothing resets s_tls_in then, it is the    *)
(* engine that drains or rejects it (eap_tls_supplicant.c:360-408).        *)
InputIsCurrent ==
    s_state = "KEY_EXCHANGE" /\ engine.eaten # Broken
       => \A i \in DOMAIN s_tls_in : s_tls_in[i].hs = engine.hs

(* Without losses and link failures the device and the authenticator agree *)
(* in the end, although the supplicant is silent on the last flight of the *)
(* server and acknowledges only its repetition                             *)
(* (eap_tls_supplicant.c:514-531).  This rests on an authenticator that    *)
(* waits for EAPOL-Start and repeats its requests, and on MainKeepsUp: the *)
(* code ensures neither.                                                   *)
Authenticates == <>[](s_authenticated /\ authorized)

(* In that undisturbed exchange, and on the same conditions, the device    *)
(* never answers out of turn, is never rejected and never restarts.        *)
NeverRejected ==
    [][request # Nil /\ request' = Nil => authorized']_eapVars

-----------------------------------------------------------------------------
(* What the comments and assertions of the code say, and what refutes it.  *)

(* main.c:56 asserts that eap_tls_supplicant_start succeeds. *)
StartSucceeds == ~StartAborts

(* eap_tls_supplicant.c:422: the overflow of the input buffer restarts the *)
(* authentication, which ends in the state START with EAPOL-Start sent.    *)
OverflowRestarts ==
    [][Len(s_tls_in) = InCap /\ s_tls_in' = <<>> /\ engine' = engine
          /\ main' = "running"
       => s_state' = "START"]_eapVars

(* eap_tls_supplicant.c:480, 522: in the state AUTHENTICATED the handshake *)
(* is completed and application data can use the protected channel.        *)
ChannelReady == s_state = "AUTHENTICATED" => engine.eaten = Over

(* main.c:60: ethernet_is_link_up is the physical state, once every event  *)
(* is handled.                                                             *)
LinkFlagIsPhysical == events = <<>> => s_link_up = phy

(* main.c:62: with the link up and s_authenticated set, everything works:  *)
(* the port is open, unless a packet that says otherwise is on its way.    *)
StatusIsTrue ==
    s_link_up /\ s_authenticated /\ events = <<>> /\ toDevice = <<>>
       => authorized

=============================================================================
