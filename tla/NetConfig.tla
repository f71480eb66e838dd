------------------------------ MODULE NetConfig ------------------------------
(***************************************************************************)
(* The network configuration: network_config.c over nvs_config.c, the part *)
(* of app_main that loads and applies it (main.c:24-29), and the commands  *)
(* of web_api_task that replace it and restart the device.                 *)
(*                                                                         *)
(* A save replaces the copy in RAM and then sets six keys of NVS one by    *)
(* one; each is durable at once, nvs_commit only flushes.  Every access    *)
(* can fail, and a restart can come between any two of them: the 750 ms of *)
(* an earlier command run out (reboot_delayed_task), or the power fails.   *)
(* A key that is not there, or cannot be read, loads as a default.         *)
(*                                                                         *)
(* At boot the main task and the event loop of esp_netif share the DHCP    *)
(* client: app_main applies the configuration while the link comes up.     *)
(***************************************************************************)
EXTENDS Naturals, Sequences, FiniteSets

CONSTANTS
    Statics,    \* the configurations that SET_STATIC is called with
    Lease,      \* the addresses a DHCP server hands out
    Absent,     \* a key NVS does not hold
    MaxSaves,   \* bound: saves over all boots
    MaxFaults   \* bound: failing accesses, power failures, erased partitions

(* Mutant: dhcp is set last. *)
KeyDhcpLast == <<"ip", "mask", "gw", "dns1", "dns2", "dhcp">>

(* The keys in the order in which nvs_config_save_network sets them.  An   *)
(* address is a number, 0 if it is not set, as is dhcp_enabled.            *)
Key == <<"dhcp", "ip", "mask", "gw", "dns1", "dns2">>

Keys     == {"dhcp", "ip", "mask", "gw", "dns1", "dns2"}
AddrKeys == Keys \ {"dhcp"}
DnsKeys  == {"dns1", "dns2"}

Configs == [Keys -> Nat]

(* {.dhcp_enabled = true}, also what is loaded from an empty NVS. *)
DhcpConfig == [k \in Keys |-> IF k = "dhcp" THEN 1 ELSE 0]

(* The static variable before network_config_init. *)
Zeroed == [k \in Keys |-> 0]

NoAddress == [k \in AddrKeys |-> 0]

ASSUME NetConfigAssumption ==
    /\ Statics \subseteq {c \in Configs : c["dhcp"] = 0}
    /\ Lease \in [AddrKeys -> Nat]
    /\ Absent \notin Nat
    /\ MaxSaves \in Nat
    /\ MaxFaults \in Nat

VARIABLES
    nvs,             \* the namespace "netcfg"
    s_saved_config,  \* the copy in RAM
    stage,           \* where app_main is
    dhcpc,           \* the status of the DHCP client of the netif
    up,              \* has the event loop brought the netif up?
    address,         \* the addresses of the netif and its DNS servers
    wpc,             \* where web_api_task is in network_config_save
    written,         \* how many keys it has set
    target,          \* the configuration it saves
    rebootTask,      \* is a reboot_delayed_task sleeping?
    booted,          \* history: the configuration that app_main applied
    accepted,        \* history: the configuration last answered with 202
    later,           \* history: those whose save has begun since
    stale,           \* history: has a read of this boot or its last save failed?
    saves, faults    \* history: for the bounds

netifVars   == <<dhcpc, up, address>>
workerVars  == <<wpc, written, target>>
historyVars == <<accepted, later>>

netVars == <<nvs, s_saved_config, stage, dhcpc, up, address, wpc, written,
             target, rebootTask, booted, accepted, later, stale, saves, faults>>

(* Mutant: a key that is not there has no default. *)
LoadRaw(lost) == nvs

(* What nvs_config_load_network makes of NVS when the keys of lost cannot  *)
(* be read.                                                                *)
Load(lost) == [k \in Keys |-> IF nvs[k] = Absent \/ k \in lost
                              THEN DhcpConfig[k] ELSE nvs[k]]

Stored == Load({})

(* The device comes from the factory without a configuration. *)
NetInit ==
    /\ nvs = [k \in Keys |-> Absent]
    /\ s_saved_config = Zeroed
    /\ stage = "nvs"
    /\ dhcpc = "INIT"
    /\ up = FALSE
    /\ address = NoAddress
    /\ wpc = "idle"
    /\ written = 0
    /\ target = DhcpConfig
    /\ rebootTask = FALSE
    /\ booted = DhcpConfig
    /\ stale = FALSE
    /\ accepted = DhcpConfig
    /\ later = {}
    /\ saves = 0
    /\ faults = 0

Fault ==
    /\ faults < MaxFaults
    /\ faults' = faults + 1

(* NVS keeps what it holds; everything else starts again. *)
Restart ==
    /\ s_saved_config' = Zeroed
    /\ stage' = "nvs"
    /\ dhcpc' = "INIT"
    /\ up' = FALSE
    /\ address' = NoAddress
    /\ wpc' = "idle"
    /\ written' = 0
    /\ target' = DhcpConfig
    /\ rebootTask' = FALSE
    /\ booted' = DhcpConfig
    /\ stale' = FALSE
    /\ UNCHANGED <<nvs, historyVars, saves>>

-----------------------------------------------------------------------------
(* The boot: app_main. *)

(* nvs_flash_init reports NO_FREE_PAGES or NEW_VERSION_FOUND, and          *)
(* nvs_config_init erases the partition.                                   *)
EraseNvs ==
    /\ stage = "nvs"
    /\ Fault
    /\ nvs' = [k \in Keys |-> Absent]
    /\ accepted' = DhcpConfig
    /\ later' = {}
    /\ UNCHANGED <<s_saved_config, stage, netifVars, workerVars, rebootTask,
                   booted, stale, saves>>

(* nvs_config_load_network: errors of the reads are not looked at. *)
LoadConfig(lost) ==
    /\ stage = "nvs"
    /\ faults + Cardinality(lost) <= MaxFaults
    /\ faults' = faults + Cardinality(lost)
    /\ s_saved_config' = Load(lost)
    /\ stale' = (lost # {})
    /\ stage' = "ethernet"
    /\ UNCHANGED <<nvs, netifVars, workerVars, rebootTask, booted,
                   historyVars, saves>>

(* ethernet_init: from here on the event loop handles the link. *)
StartEthernet ==
    /\ stage = "ethernet"
    /\ stage' = "apply"
    /\ booted' = s_saved_config
    /\ UNCHANGED <<nvs, s_saved_config, netifVars, workerVars, rebootTask,
                   historyVars, stale, saves, faults>>

(* esp_netif_dhcpc_start: a client of a netif that is down waits for it. *)
DhcpcStart ==
    /\ dhcpc' = IF up THEN "STARTED" ELSE "INIT"
    /\ address' = [k \in AddrKeys |-> IF k \in DnsKeys THEN address[k] ELSE 0]

(* network_config_apply with dhcp_enabled. *)
ApplyDhcp ==
    /\ stage = "apply"
    /\ s_saved_config["dhcp"] # 0
    /\ IF dhcpc = "STARTED" THEN UNCHANGED <<dhcpc, address>> ELSE DhcpcStart
    /\ stage' = "running"
    /\ UNCHANGED <<nvs, s_saved_config, up, workerVars, rebootTask, booted,
                   historyVars, stale, saves, faults>>

(* Mutant: only a client that runs is stopped. *)
GetStatusStarted ==
    /\ stage = "apply"
    /\ s_saved_config["dhcp"] = 0
    /\ stage' = IF dhcpc = "STARTED" THEN "stop" ELSE "set_ip"
    /\ UNCHANGED <<nvs, s_saved_config, netifVars, workerVars, rebootTask,
                   booted, historyVars, stale, saves, faults>>

(* network_config_apply without dhcp_enabled: is there a client to stop? *)
GetStatus ==
    /\ stage = "apply"
    /\ s_saved_config["dhcp"] = 0
    /\ stage' = IF dhcpc # "STOPPED" THEN "stop" ELSE "set_ip"
    /\ UNCHANGED <<nvs, s_saved_config, netifVars, workerVars, rebootTask,
                   booted, historyVars, stale, saves, faults>>

(* esp_netif_dhcpc_stop takes back the addresses of a lease, and may or    *)
(* may not take back its DNS servers.                                      *)
StopDhcp ==
    /\ stage = "stop"
    /\ dhcpc' = "STOPPED"
    /\ \E kept \in SUBSET DnsKeys :
          address' = [k \in AddrKeys |-> IF k \in kept THEN address[k] ELSE 0]
    /\ stage' = "set_ip"
    /\ UNCHANGED <<nvs, s_saved_config, up, workerVars, rebootTask, booted,
                   historyVars, stale, saves, faults>>

(* Mutant: the second DNS server is stored as the first. *)
SetAddressSameDns ==
    /\ stage = "set_ip"
    /\ dhcpc = "STOPPED"
    /\ address' = [k \in AddrKeys |->
                      IF k \in DnsKeys
                      THEN IF s_saved_config["dns2"] = 0 THEN address[k]
                           ELSE s_saved_config["dns2"]
                      ELSE s_saved_config[k]]
    /\ stage' = "running"
    /\ UNCHANGED <<nvs, s_saved_config, dhcpc, up, workerVars, rebootTask,
                   booted, historyVars, stale, saves, faults>>

(* esp_netif_set_ip_info refuses while the client is not stopped, and      *)
(* app_main asserts that it does not; set_dns_if_present skips a 0.        *)
SetAddress ==
    /\ stage = "set_ip"
    /\ IF dhcpc # "STOPPED"
       THEN Restart /\ UNCHANGED faults
       ELSE /\ address' = [k \in AddrKeys |->
                             IF k \in DnsKeys /\ s_saved_config[k] = 0
                             THEN address[k] ELSE s_saved_config[k]]
            /\ stage' = "running"
            /\ UNCHANGED <<nvs, s_saved_config, dhcpc, up, workerVars,
                           rebootTask, booted, historyVars, stale, saves,
                           faults>>

-----------------------------------------------------------------------------
(* The event loop and the DHCP client (esp_netif). *)

Attached == stage \notin {"nvs", "ethernet"}

(* The link is up: a client that waits for it is started. *)
Connected ==
    /\ Attached
    /\ ~up
    /\ up' = TRUE
    /\ dhcpc' = IF dhcpc = "INIT" THEN "STARTED" ELSE dhcpc
    /\ UNCHANGED <<nvs, s_saved_config, stage, address, workerVars, rebootTask,
                   booted, historyVars, stale, saves, faults>>

(* The link is down: a client that runs waits again, without addresses. *)
Disconnected ==
    /\ up
    /\ up' = FALSE
    /\ IF dhcpc = "STARTED"
       THEN /\ dhcpc' = "INIT"
            /\ address' = [k \in AddrKeys |->
                             IF k \in DnsKeys THEN address[k] ELSE 0]
       ELSE UNCHANGED <<dhcpc, address>>
    /\ UNCHANGED <<nvs, s_saved_config, stage, workerVars, rebootTask, booted,
                   historyVars, stale, saves, faults>>

GotLease ==
    /\ dhcpc = "STARTED"
    /\ address # Lease
    /\ address' = Lease
    /\ UNCHANGED <<nvs, s_saved_config, stage, dhcpc, up, workerVars,
                   rebootTask, booted, historyVars, stale, saves, faults>>

-----------------------------------------------------------------------------
(* The commands: web_api_task, once the boot has come to web_api_start. *)

(* Mutant: the copy in RAM is left as it was. *)
BeginSaveNvsOnly(config) ==
    /\ stage = "running"
    /\ wpc = "idle"
    /\ saves < MaxSaves
    /\ saves' = saves + 1
    /\ target' = config
    /\ later' = later \cup {config}
    /\ wpc' = "open"
    /\ written' = 0
    /\ UNCHANGED <<nvs, s_saved_config, stage, netifVars, rebootTask, booted,
                   accepted, stale, faults>>

(* network_config_save replaces the copy in RAM first. *)
BeginSave(config) ==
    /\ stage = "running"
    /\ wpc = "idle"
    /\ saves < MaxSaves
    /\ saves' = saves + 1
    /\ s_saved_config' = config
    /\ target' = config
    /\ later' = later \cup {config}
    /\ wpc' = "open"
    /\ written' = 0
    /\ UNCHANGED <<nvs, stage, netifVars, rebootTask, booted, accepted, stale,
                   faults>>

SetDhcp == BeginSave(DhcpConfig)

SetStatic(config) == BeginSave(config)

OpenNvs ==
    /\ wpc = "open"
    /\ wpc' = "write"
    /\ UNCHANGED <<nvs, s_saved_config, stage, netifVars, written, target,
                   rebootTask, booted, historyVars, stale, saves, faults>>

(* Mutant: an address that is not set is not written. *)
SetKeyIfPresent ==
    /\ wpc = "write"
    /\ written < Len(Key)
    /\ nvs' = IF target[Key[written + 1]] = 0 /\ written > 0 THEN nvs
              ELSE [nvs EXCEPT ![Key[written + 1]] = target[Key[written + 1]]]
    /\ written' = written + 1
    /\ UNCHANGED <<s_saved_config, stage, netifVars, wpc, target, rebootTask,
                   booted, historyVars, stale, saves, faults>>

(* nvs_set_u8 and nvs_set_u32 of the next key. *)
SetKey ==
    /\ wpc = "write"
    /\ written < Len(Key)
    /\ nvs' = [nvs EXCEPT ![Key[written + 1]] = target[Key[written + 1]]]
    /\ written' = written + 1
    /\ UNCHANGED <<s_saved_config, stage, netifVars, wpc, target, rebootTask,
                   booted, historyVars, stale, saves, faults>>

(* network_config_save returns: its arguments are dead. *)
EndSave ==
    /\ wpc' = "idle"
    /\ written' = 0
    /\ target' = DhcpConfig

(* nvs_commit: 202, and a task that restarts the device.  Whether the task *)
(* could be created is not looked at.                                      *)
Commit ==
    /\ wpc = "write"
    /\ written = Len(Key)
    /\ EndSave
    /\ accepted' = target
    /\ later' = {}
    /\ stale' = FALSE
    /\ \/ rebootTask' = TRUE /\ UNCHANGED faults
       \/ Fault /\ UNCHANGED rebootTask
    /\ UNCHANGED <<nvs, s_saved_config, stage, netifVars, booted, saves>>

(* nvs_open, a set or the commit fails: 500, and no restart.  What has     *)
(* been set stays, and so does the copy in RAM.                            *)
SaveFails ==
    /\ wpc # "idle"
    /\ Fault
    /\ EndSave
    /\ stale' = TRUE
    /\ UNCHANGED <<nvs, s_saved_config, stage, netifVars, rebootTask, booted,
                   historyVars, saves>>

(* WEB_API_CMD_REBOOT *)
RebootCommand ==
    /\ stage = "running"
    /\ wpc = "idle"
    /\ rebootTask' = TRUE
    /\ UNCHANGED <<nvs, s_saved_config, stage, netifVars, workerVars, booted,
                   historyVars, stale, saves, faults>>

(* reboot_delayed_task: whatever web_api_task is doing is cut off. *)
DelayedReboot ==
    /\ rebootTask
    /\ Restart
    /\ UNCHANGED faults

(* The power fails, or one of the steps of the boot that ESP_ERROR_CHECK   *)
(* asserts does.                                                           *)
Crash ==
    /\ Fault
    /\ Restart

-----------------------------------------------------------------------------

NetNext ==
    \/ EraseNvs
    \/ \E lost \in SUBSET Keys : LoadConfig(lost)
    \/ StartEthernet
    \/ ApplyDhcp
    \/ GetStatus
    \/ StopDhcp
    \/ SetAddress
    \/ Connected
    \/ Disconnected
    \/ GotLease
    \/ SetDhcp
    \/ \E config \in Statics : SetStatic(config)
    \/ OpenNvs
    \/ SetKey
    \/ Commit
    \/ SaveFails
    \/ RebootCommand
    \/ DelayedReboot
    \/ Crash

NetSpec == NetInit /\ [][NetNext]_netVars

(* The main task runs and the delay of reboot_delayed_task ends.  Nothing  *)
(* is assumed of the link, of a DHCP server or of web_api_task.            *)
Fairness ==
    /\ WF_netVars(\/ LoadConfig({}) \/ StartEthernet \/ ApplyDhcp
                  \/ GetStatus \/ StopDhcp \/ SetAddress)
    /\ WF_netVars(DelayedReboot)

NetFairSpec == NetSpec /\ Fairness

-----------------------------------------------------------------------------

Stages == {"nvs", "ethernet", "apply", "stop", "set_ip", "running"}

NetTypeOK ==
    /\ nvs \in [Keys -> Nat \cup {Absent}]
    /\ s_saved_config \in Configs
    /\ stage \in Stages
    /\ dhcpc \in {"INIT", "STARTED", "STOPPED"}
    /\ up \in BOOLEAN
    /\ address \in [AddrKeys -> Nat]
    /\ wpc \in {"idle", "open", "write"}
    /\ written \in 0..Len(Key)
    /\ target \in Configs
    /\ rebootTask \in BOOLEAN
    /\ booted \in Configs
    /\ accepted \in Configs
    /\ later \subseteq Configs
    /\ stale \in BOOLEAN
    /\ saves \in 0..MaxSaves
    /\ faults \in 0..MaxFaults

-----------------------------------------------------------------------------
(* What the API reports. *)

(* network_config_get_runtime *)
Runtime == [k \in Keys |-> IF k = "dhcp"
                           THEN IF dhcpc # "STOPPED" THEN 1 ELSE 0
                           ELSE address[k]]

(* respond_settings_network shows the copy in RAM while the netif has no   *)
(* addresses.                                                              *)
Shown == IF Runtime["ip"] # 0 \/ Runtime["gw"] # 0 \/ Runtime["mask"] # 0
         THEN Runtime ELSE s_saved_config

-----------------------------------------------------------------------------
(* Properties. *)

(* Between two saves the copy in RAM, which the API reports as saved, is   *)
(* what the next boot will find in NVS (network_config.c:47), unless the   *)
(* last save failed or this boot could not read a key.                     *)
SavedIsStored ==
    stage # "nvs" /\ wpc = "idle" /\ ~stale => s_saved_config = Stored

(* Whatever is cut off or fails, and however often, each key in NVS is     *)
(* that of the configuration last accepted with 202 or of one whose save   *)
(* has begun since (nvs_config.c:65-71).  With no save begun since, the    *)
(* accepted configuration is there as a whole.                             *)
AcceptedSurvives ==
    \A k \in Keys : \E c \in {accepted} \cup later : Stored[k] = c[k]

(* A switch to DHCP is never left half done in effect: dhcp is set first   *)
(* (nvs_config.c:65), so the next boot uses DHCP or the configuration      *)
(* accepted before, complete.  A switch to a static address has no such    *)
(* order: cut off, it can leave dhcp = 0 with the old addresses, or none.  *)
DhcpNeverMixes ==
    later \subseteq {DhcpConfig} => Stored["dhcp"] = 1 \/ Stored = accepted

(* Once the boot has applied a static configuration, neither a DHCP client *)
(* started by the event loop meanwhile nor a link that comes and goes      *)
(* replaces it (network_config.c:73-89), and the settings the API shows    *)
(* are those the device runs with, although another may have been saved.   *)
StaticStaysStatic ==
    stage = "running" /\ booted["dhcp"] = 0 =>
       /\ dhcpc = "STOPPED"
       /\ \A k \in AddrKeys : booted[k] # 0 => address[k] = booted[k]
       /\ booted["ip"] # 0 => Shown["dhcp"] = 0 /\ Shown["ip"] = booted["ip"]

(* A configuration answered with 202 is the one the device comes to run    *)
(* with (web_api.c:178-206, 298), unless another save begins first or a    *)
(* fault strikes.                                                          *)
AcceptedApplied ==
    \A c \in Statics \cup {DhcpConfig} :
       accepted = c /\ later = {} /\ rebootTask /\ faults = MaxFaults
          ~> \/ stage = "running" /\ booted = c
             \/ later # {}

=============================================================================
