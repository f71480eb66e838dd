----------------------------- MODULE Supplicant -----------------------------
(***************************************************************************)
(* The EAP-TLS supplicant of main/eap_tls_supplicant.c.                    *)
(*                                                                         *)
(* Two tasks run it.  The receive task of the Ethernet driver calls        *)
(* eap_frame_handler for every EAPoL frame; the main task initialises TLS, *)
(* waits for the link and sends EAPOL-Start.  They share s_state and the   *)
(* buffer in which every outgoing frame is built, without a lock.          *)
(*                                                                         *)
(* mbedTLS is external.  The first flight of the server comes in parts     *)
(* 1..FlightParts, its second is part FlightParts + 1, and the engine is   *)
(* the number of parts it has eaten since mbedtls_ssl_session_reset, or    *)
(* Broken after anything else: a broken engine may ask for more or report  *)
(* an error, with or without an alert to send.                             *)
(***************************************************************************)
EXTENDS EthernetLink

CONSTANTS
    FlightParts,  \* fragments of the first flight of the server
    InCap,        \* fragments that fit into s_tls_in
    Epochs,       \* handshakes told apart
    Ids,          \* EAP identifiers: 0..Ids-1
    Nil

ASSUME SupplicantAssumption ==
    /\ FlightParts \in Nat \ {0}
    /\ InCap \in Nat \ {0}
    /\ Epochs \in Nat \ {0, 1}
    /\ Ids \in Nat \ {0, 1}

VARIABLES
    s_state,
    s_authenticated,
    s_eap_identifier,
    s_tls_in,    \* the fragments in the input buffer
    send_buf,    \* s_bio.send_buf: what the engine has output
    engine,      \* [hs: the handshake, eaten: the parts it has eaten]
    main,        \* where the main task is
    rx,          \* the receive task: "idle", or "built" a frame
    frame,       \* the buffer shared by both tasks
    toServer     \* the frames on their way to the authenticator

tlsVars == <<s_tls_in, send_buf, engine>>
supplicantVars == <<s_state, s_authenticated, s_eap_identifier, s_tls_in,
                    send_buf, engine, main, rx, frame, toServer>>

States == {"IDLE", "START", "IDENTITY_SENT", "KEY_EXCHANGE",
           "CHANGE_CIPHER_SPEC", "AUTHENTICATED", "FAILED"}

Over   == FlightParts + 1
Broken == FlightParts + 2

Chunks  == [hs : 0..(Epochs - 1), part : 1..Over]
Packets == {p \in [kind : {"Identity", "Start", "Data", "Success", "Failure"},
                   id : 0..(Ids - 1), hs : 0..(Epochs - 1), part : 0..Over] :
               p.kind = "Data" <=> p.part # 0}
Replies == [kind : {"EapolStart", "Identity", "ClientHello", "Flight2",
                    "Alert", "Ack"},
            id : 0..(Ids - 1), hs : 0..(Epochs - 1)]

ASSUME NilAssumption ==
    Nil \notin Packets \cup Replies \cup {"ClientHello", "Flight2", "Alert"}

EapolStart == [kind |-> "EapolStart", id |-> 0, hs |-> 0]

SupplicantInit ==
    /\ s_state = "IDLE"
    /\ s_authenticated = FALSE
    /\ s_eap_identifier = 0
    /\ s_tls_in = <<>>
    /\ send_buf = Nil
    /\ engine = [hs |-> 0, eaten |-> 0]
    /\ main = "booting"
    /\ rx = "idle"
    /\ frame = Nil
    /\ toServer = <<>>

(* esp_restart, or a panic: the RAM is as after power-up. *)
SupplicantRestart ==
    /\ s_state' = "IDLE"
    /\ s_authenticated' = FALSE
    /\ s_eap_identifier' = 0
    /\ s_tls_in' = <<>>
    /\ send_buf' = Nil
    /\ engine' = [hs |-> 0, eaten |-> 0]
    /\ main' = "booting"
    /\ rx' = "idle"
    /\ frame' = Nil
    /\ toServer' = <<>>

-----------------------------------------------------------------------------
(* The TLS engine. *)

(* The engine, which has eaten some parts, meets just the next ones.       *)
Follows(hs, eaten, input) ==
    \A i \in DOMAIN input :
       eaten + i <= Over /\ input[i] = [hs |-> hs, part |-> eaten + i]

(* What eap_tls_bio_recv has not handed out yet. *)
Suffixes(input) == {SubSeq(input, k, Len(input)) : k \in 1..(Len(input) + 1)}

(* Reading input until it wants more or fails: what it has eaten, what it  *)
(* has put into send_buf, what it returns and what it leaves unread.       *)
Handshake(hs, eaten, buf, input) ==
    LET end == IF Follows(hs, eaten, input) THEN eaten + Len(input) ELSE Broken
    IN  IF end = Broken
        THEN [eaten : {Broken}, buf : {buf}, ret : {"WANT_READ"}, left : {<<>>}]
             \cup [eaten : {Broken}, buf : {buf, "Alert"}, ret : {"ERROR"},
                   left : Suffixes(input)]
        ELSE {[eaten |-> end,
               buf   |-> IF eaten < FlightParts /\ FlightParts <= end
                         THEN "Flight2" ELSE buf,
               ret   |-> IF end = Over THEN "ERROR" ELSE "WANT_READ",
               left  |-> <<>>]}

-----------------------------------------------------------------------------
(* The receive task: eap_frame_handler for the packet p. *)

(* build_eap_packet and the first half of send_eapol_packet: the response  *)
(* is in the frame buffer.                                                 *)
Respond(p, kind) ==
    /\ frame' = [kind |-> kind, id |-> p.id, hs |-> engine'.hs]
    /\ rx' = "built"

Silent == UNCHANGED <<frame, rx>>

(* Until eap_tls_supplicant_init has copied the configuration the identity *)
(* is empty, and the response one without a type, which nobody takes.      *)
HandleIdentity(p) ==
    /\ p.kind = "Identity"
    /\ s_state' = "IDENTITY_SENT"
    /\ UNCHANGED <<s_authenticated, tlsVars>>
    /\ \/ Respond(p, "Identity")
       \/ main = "booting" /\ Silent

(* EAP-TLS Start: the session is reset but not s_tls_in, so the first      *)
(* calls of the engine may meet bytes of an earlier handshake.             *)
StartResult ==
    Handshake((engine.hs + 1) % Epochs, 0, "ClientHello", s_tls_in)

(* Mutant: one handshake step, which makes the ClientHello, and no more. *)
StartOneStep(p) ==
    /\ p.kind = "Start"
    /\ main # "booting"
    /\ engine' = [hs |-> (engine.hs + 1) % Epochs, eaten |-> 0]
    /\ send_buf' = Nil
    /\ s_state' = "KEY_EXCHANGE"
    /\ UNCHANGED <<s_authenticated, s_tls_in>>
    /\ Respond(p, "ClientHello")

StartAnswered(p) ==
    /\ p.kind = "Start"
    /\ main # "booting"
    /\ \E r \in StartResult :
          /\ r.ret = "WANT_READ"
          /\ engine' = [hs |-> (engine.hs + 1) % Epochs, eaten |-> r.eaten]
    /\ s_tls_in' = <<>>
    /\ send_buf' = Nil
    /\ s_state' = "KEY_EXCHANGE"
    /\ UNCHANGED s_authenticated
    /\ Respond(p, "ClientHello")

(* After an error the code goes on to the data of the Start packet, whose  *)
(* length of 1 - 5 bytes wraps around: with s_tls_in empty it is too long  *)
(* for the buffer, and eap_tls_supplicant_start refuses a state other than *)
(* IDLE.                                                                   *)
StartOverflows(p) ==
    /\ p.kind = "Start"
    /\ main # "booting"
    /\ \E r \in StartResult :
          /\ r.ret = "ERROR" /\ r.left = <<>>
          /\ engine' = [hs |-> (engine.hs + 1) % Epochs, eaten |-> r.eaten]
          /\ send_buf' = r.buf
    /\ s_tls_in' = <<>>
    /\ s_state' = "FAILED"
    /\ UNCHANGED s_authenticated
    /\ Silent

(* With bytes left the sum of the lengths wraps around too, and the copy   *)
(* runs over the memory; and before tls_init there is no session to reset. *)
StartPanics(p) ==
    /\ p.kind = "Start"
    /\ \/ main = "booting"
       \/ \E r \in StartResult : r.ret = "ERROR" /\ r.left # <<>>

(* Mutant: the last fragment of the flight counts as one with a successor. *)
IsLateFragment(p) == p.part <= FlightParts

Chunk(p)     == [hs |-> p.hs, part |-> p.part]
IsFragment(p) == p.part < FlightParts

DataOverflows(p) ==
    /\ p.kind = "Data"
    /\ Len(s_tls_in) = InCap
    /\ s_tls_in' = <<>>
    /\ s_state' = "FAILED"
    /\ UNCHANGED <<s_authenticated, send_buf, engine>>
    /\ Silent

(* Mutant: the bound on the buffer is off by one. *)
DataStoredPastEnd(p) ==
    /\ p.kind = "Data"
    /\ Len(s_tls_in) <= InCap
    /\ s_state # "CHANGE_CIPHER_SPEC"
    /\ s_state = "KEY_EXCHANGE" => IsFragment(p)
    /\ s_tls_in' = Append(s_tls_in, Chunk(p))
    /\ UNCHANGED <<s_state, s_authenticated, send_buf, engine>>
    /\ IF s_state \in {"KEY_EXCHANGE", "AUTHENTICATED"}
       THEN Respond(p, "Ack") ELSE Silent

(* Mutant: the last flight of the server is never acknowledged. *)
DataStoredSilently(p) ==
    /\ p.kind = "Data"
    /\ Len(s_tls_in) < InCap
    /\ s_state # "CHANGE_CIPHER_SPEC"
    /\ s_state = "KEY_EXCHANGE" => IsFragment(p)
    /\ s_tls_in' = Append(s_tls_in, Chunk(p))
    /\ UNCHANGED <<s_state, s_authenticated, send_buf, engine>>
    /\ IF s_state = "KEY_EXCHANGE" THEN Respond(p, "Ack") ELSE Silent

(* The data is taken and nothing else happens, or it is acknowledged.      *)
DataStored(p) ==
    /\ p.kind = "Data"
    /\ Len(s_tls_in) < InCap
    /\ s_state # "CHANGE_CIPHER_SPEC"
    /\ s_state = "KEY_EXCHANGE" => IsFragment(p)
    /\ s_tls_in' = Append(s_tls_in, Chunk(p))
    /\ UNCHANGED <<s_state, s_authenticated, send_buf, engine>>
    /\ IF s_state \in {"KEY_EXCHANGE", "AUTHENTICATED"}
       THEN Respond(p, "Ack") ELSE Silent

(* The data completes a message, or the state is CHANGE_CIPHER_SPEC, where *)
(* the fragment flag is not looked at: the engine runs.  Output is sent;   *)
(* without output KEY_EXCHANGE waits on and CHANGE_CIPHER_SPEC takes the   *)
(* handshake for completed.                                                *)
DataProcessed(p) ==
    /\ p.kind = "Data"
    /\ Len(s_tls_in) < InCap
    /\ \/ s_state = "KEY_EXCHANGE" /\ ~IsFragment(p)
       \/ s_state = "CHANGE_CIPHER_SPEC"
    /\ UNCHANGED s_authenticated
    /\ \E r \in Handshake(engine.hs, engine.eaten, send_buf,
                          Append(s_tls_in, Chunk(p))) :
          /\ engine' = [engine EXCEPT !.eaten = r.eaten]
          /\ IF r.ret = "WANT_READ" /\ r.buf # Nil
             THEN /\ s_tls_in' = <<>>
                  /\ send_buf' = Nil
                  /\ s_state' = "CHANGE_CIPHER_SPEC"
                  /\ Respond(p, r.buf)
             ELSE /\ s_tls_in' = r.left
                  /\ send_buf' = r.buf
                  /\ s_state' = IF s_state = "KEY_EXCHANGE"
                                THEN "KEY_EXCHANGE" ELSE "AUTHENTICATED"
                  /\ Silent

HandleSuccess(p) ==
    /\ p.kind = "Success"
    /\ s_authenticated' = TRUE
    /\ s_state' = "AUTHENTICATED"
    /\ UNCHANGED tlsVars
    /\ Silent

(* Mutant: a Failure is taken for a Success. *)
FailureAccepted(p) ==
    /\ p.kind = "Failure"
    /\ s_authenticated' = TRUE
    /\ s_state' = "AUTHENTICATED"
    /\ UNCHANGED tlsVars
    /\ Silent

HandleFailure(p) ==
    /\ p.kind = "Failure"
    /\ s_authenticated' = FALSE
    /\ s_state' = "FAILED"
    /\ UNCHANGED tlsVars
    /\ Silent

eap_frame_handler(p) ==
    /\ rx = "idle"
    /\ s_eap_identifier' = p.id
    /\ UNCHANGED <<main, toServer>>
    /\ \/ HandleIdentity(p)
       \/ StartAnswered(p)
       \/ StartOverflows(p)
       \/ DataOverflows(p)
       \/ DataStored(p)
       \/ DataProcessed(p)
       \/ HandleSuccess(p)
       \/ HandleFailure(p)

(* esp_eth_transmit in the receive task: it sends what the buffer holds.   *)
RxTransmit ==
    /\ rx = "built"
    /\ rx' = "idle"
    /\ toServer' = Append(toServer, frame)
    /\ UNCHANGED <<s_state, s_authenticated, s_eap_identifier, tlsVars, main,
                   frame>>

-----------------------------------------------------------------------------
(* The main task. *)

MainTo(from, to) == main = from /\ main' = to

TlsInit ==
    /\ MainTo("booting", "initialised")
    /\ UNCHANGED <<s_state, s_authenticated, s_eap_identifier, tlsVars, rx,
                   frame, toServer>>

StartAllowed ==
    /\ s_state = "IDLE"
    /\ MainTo("initialised", "waiting")
    /\ UNCHANGED <<s_state, s_authenticated, s_eap_identifier, tlsVars, rx,
                   frame, toServer>>

(* ESP_ERROR_CHECK(eap_tls_supplicant_start()) aborts. *)
StartAborts == main = "initialised" /\ s_state # "IDLE"

BuildStart ==
    /\ s_link_up
    /\ MainTo("waiting", "built")
    /\ frame' = EapolStart
    /\ UNCHANGED <<s_state, s_authenticated, s_eap_identifier, tlsVars, rx,
                   toServer>>

(* Mutant: the main task sends EAPOL-Start again and again. *)
TransmitStartRepeated ==
    /\ MainTo("built", "waiting")
    /\ toServer' = IF frame = EapolStart THEN Append(toServer, frame)
                                         ELSE toServer
    /\ UNCHANGED <<s_state, s_authenticated, s_eap_identifier, tlsVars, rx,
                   frame>>

(* A longer response of the receive task in the buffer is cut off to the   *)
(* length of EAPOL-Start, and no frame the authenticator takes.            *)
TransmitStart ==
    /\ MainTo("built", "sent")
    /\ toServer' = IF frame = EapolStart THEN Append(toServer, frame)
                                         ELSE toServer
    /\ UNCHANGED <<s_state, s_authenticated, s_eap_identifier, tlsVars, rx,
                   frame>>

StoreStart ==
    /\ MainTo("sent", "running")
    /\ s_state' = "START"
    /\ UNCHANGED <<s_authenticated, s_eap_identifier, tlsVars, rx, frame,
                   toServer>>

MainStep == TlsInit \/ StartAllowed \/ BuildStart \/ TransmitStart \/ StoreStart

-----------------------------------------------------------------------------

SupplicantTypeOK ==
    /\ LinkTypeOK
    /\ s_state \in States
    /\ s_authenticated \in BOOLEAN
    /\ s_eap_identifier \in 0..(Ids - 1)
    /\ s_tls_in \in Seq(Chunks)
    /\ Len(s_tls_in) <= InCap
    /\ send_buf \in {Nil, "ClientHello", "Flight2", "Alert"}
    /\ engine \in [hs : 0..(Epochs - 1), eaten : 0..Broken]
    /\ main \in {"booting", "initialised", "waiting", "built", "sent", "running"}
    /\ rx \in {"idle", "built"}
    /\ frame \in Replies \cup {Nil}
    /\ toServer \in Seq(Replies)
    /\ rx = "built" => frame # Nil

=============================================================================
