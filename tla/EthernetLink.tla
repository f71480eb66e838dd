---------------------------- MODULE EthernetLink ----------------------------
(***************************************************************************)
(* The link flag of main/ethernet_init.c.  The driver and the IP stack     *)
(* post events to the default event loop; ethernet_event_handler turns     *)
(* them, one at a time, into s_link_up, which ethernet_is_link_up reports. *)
(***************************************************************************)
EXTENDS Naturals, Sequences

CONSTANT MaxFaults  \* bound: link losses and address losses

ASSUME LinkAssumption == MaxFaults \in Nat

VARIABLES
    phy,        \* the cable is plugged in and the PHY sees its peer
    events,     \* posted to the event loop and not yet handled
    s_link_up,
    faults      \* link and address losses so far

linkVars == <<phy, events, s_link_up, faults>>

LinkEvents == {"CONNECTED", "DISCONNECTED", "GOT_IP", "LOST_IP"}

(* Bound: events waiting for the event loop. *)
MaxEvents == 2

LinkInit ==
    /\ phy = FALSE
    /\ events = <<>>
    /\ s_link_up = FALSE
    /\ faults = 0

Post(e) ==
    /\ Len(events) < MaxEvents
    /\ events' = Append(events, e)
    /\ UNCHANGED s_link_up

PhyUp ==
    /\ ~phy
    /\ phy' = TRUE
    /\ Post("CONNECTED")
    /\ UNCHANGED faults

PhyDown ==
    /\ phy
    /\ faults < MaxFaults
    /\ phy' = FALSE
    /\ faults' = faults + 1
    /\ Post("DISCONNECTED")

(* The DHCP client has an address, or has lost it although the link is up. *)
GotIp ==
    /\ phy
    /\ Post("GOT_IP")
    /\ UNCHANGED <<phy, faults>>

LostIp ==
    /\ phy
    /\ faults < MaxFaults
    /\ faults' = faults + 1
    /\ Post("LOST_IP")
    /\ UNCHANGED phy

(* ethernet_event_handler *)
HandleEvent ==
    /\ events # <<>>
    /\ events' = Tail(events)
    /\ s_link_up' = (Head(events) \in {"CONNECTED", "GOT_IP"})
    /\ UNCHANGED <<phy, faults>>

LinkTypeOK ==
    /\ phy \in BOOLEAN
    /\ events \in Seq(LinkEvents)
    /\ Len(events) <= MaxEvents
    /\ s_link_up \in BOOLEAN
    /\ faults \in 0..MaxFaults

=============================================================================
