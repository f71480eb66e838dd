--------------------------- MODULE NetConfigProofs ---------------------------
(* The safety of NetConfig for every set of static configurations, every   *)
(* lease and any number of saves and faults.                               *)
EXTENDS NetConfig, Integers, FiniteSetTheorems, TLAPS

(* web_api_task is in network_config_save: the copy in RAM is the          *)
(* configuration being saved, and the keys before the next one hold it.    *)
Saving ==
    /\ wpc # "idle" => /\ stage = "running"
                       /\ s_saved_config = target
                       /\ target \in later
    /\ wpc # "write" => written = 0
    /\ \A i \in 1..written : nvs[Key[i]] = target[Key[i]]

(* What NVS holds. *)
Storage == SavedIsStored /\ AcceptedSurvives /\ DhcpNeverMixes

(* app_main applies what it has loaded, and sets addresses with the DHCP   *)
(* client stopped.                                                         *)
Applying ==
    /\ stage \in {"apply", "stop", "set_ip"} => booted = s_saved_config
    /\ stage \in {"stop", "set_ip"} => s_saved_config["dhcp"] = 0
    /\ stage = "set_ip" => dhcpc = "STOPPED"
    /\ stage = "running" /\ booted["dhcp"] = 0 =>
          /\ dhcpc = "STOPPED"
          /\ \A k \in AddrKeys : booted[k] # 0 => address[k] = booted[k]

IInv == NetTypeOK /\ Saving /\ Storage /\ Applying

-----------------------------------------------------------------------------
(* The keys and what is loaded from them. *)

(* Key lists the keys, dhcp first. *)
LEMMA KeyCount == Len(Key) = 6
BY DEF Key

LEMMA NoneWritten == 0 \in 0..Len(Key)
BY KeyCount

LEMMA KeyOrder ==
    /\ \A i \in 1..6 : Key[i] \in Keys
    /\ \A k \in Keys : \E i \in 1..6 : Key[i] = k
    /\ Key[1] = "dhcp"
<1>1. /\ Key[1] = "dhcp" /\ Key[2] = "ip" /\ Key[3] = "mask"
      /\ Key[4] = "gw" /\ Key[5] = "dns1" /\ Key[6] = "dns2"
  BY DEF Key
<1>2. \A i \in 1..6 : i = 1 \/ i = 2 \/ i = 3 \/ i = 4 \/ i = 5 \/ i = 6
  OBVIOUS
<1>3. \A i \in 1..6 : Key[i] \in Keys
  BY <1>1, <1>2 DEF Keys
<1>4. 1 \in 1..6 /\ 2 \in 1..6 /\ 3 \in 1..6
      /\ 4 \in 1..6 /\ 5 \in 1..6 /\ 6 \in 1..6
  OBVIOUS
<1>5. \A k \in Keys : \E i \in 1..6 : Key[i] = k
  BY <1>1, <1>4 DEF Keys
<1> QED  BY <1>1, <1>3, <1>5

(* What the next boot loads for a key. *)
LEMMA StoredValue ==
    ASSUME NEW k \in Keys
    PROVE  Stored[k] = IF nvs[k] = Absent THEN DhcpConfig[k] ELSE nvs[k]
BY DEF Stored, Load

LEMMA KeysFinite == IsFiniteSet(Keys)
<1> DEFINE f == [i \in 1..6 |-> Key[i]]
<1>1. f \in Surjection(1..6, Keys)
  BY KeyOrder DEF Surjection
<1>2. IsFiniteSet(1..6)
  <2>1. 1 \in Int /\ 6 \in Int
    OBVIOUS
  <2> QED  BY <2>1, FS_Interval, Zenon
<1> QED  BY <1>1, <1>2, FS_Surjection

(* Configurations are functions: they are equal key by key. *)
LEMMA StoredEquals ==
    ASSUME NEW c \in Configs, \A k \in Keys : Stored[k] = c[k]
    PROVE  Stored = c
<1>1. Stored = [k \in Keys |-> Stored[k]]
  BY DEF Stored, Load
<1>2. c = [k \in Keys |-> c[k]]
  BY DEF Configs
<1> QED  BY <1>1, <1>2

(* A configuration that has been loaded or is saved is one. *)
LEMMA ConfigTypes ==
    /\ DhcpConfig \in Configs
    /\ Zeroed \in Configs
    /\ NoAddress \in [AddrKeys -> Nat]
BY DEF DhcpConfig, Zeroed, NoAddress, Configs

LEMMA StaticTypes ==
    /\ Statics \subseteq Configs
    /\ Lease \in [AddrKeys -> Nat]
BY NetConfigAssumption

LEMMA Bounds == MaxSaves \in Nat /\ MaxFaults \in Nat
BY NetConfigAssumption

LEMMA LoadType ==
    ASSUME NetTypeOK, NEW lost
    PROVE  Load(lost) \in Configs
BY ConfigTypes DEF Configs, Load, NetTypeOK

-----------------------------------------------------------------------------

LEMMA InitInv == NetInit => IInv
<1> SUFFICES ASSUME NetInit PROVE IInv
  OBVIOUS
<1> USE DEF NetInit
<1>1. NetTypeOK
  <2>1. nvs \in [Keys -> Nat \cup {Absent}]
    OBVIOUS
  <2>2. saves \in 0..MaxSaves /\ faults \in 0..MaxFaults
    BY Bounds
  <2>3. stage \in Stages
    BY DEF Stages
  <2> QED  BY <2>1, <2>2, <2>3, ConfigTypes, NoneWritten DEF NetTypeOK
<1>2. Saving
  BY DEF Saving
<1>3. Stored = DhcpConfig
  BY ConfigTypes, StoredEquals, StoredValue
<1>4. Storage
  BY <1>3 DEF Storage, SavedIsStored, AcceptedSurvives, DhcpNeverMixes
<1>5. Applying
  BY DEF Applying
<1> QED  BY <1>1, <1>2, <1>4, <1>5 DEF IInv

-----------------------------------------------------------------------------
(* Type correctness. *)

LEMMA RestartType ==
    ASSUME NetTypeOK, Restart, faults' \in 0..MaxFaults
    PROVE  NetTypeOK'
BY ConfigTypes, NoneWritten DEF NetTypeOK, Restart, historyVars, Stages

LEMMA BeginSaveType ==
    ASSUME NetTypeOK, NEW config \in Configs, BeginSave(config)
    PROVE  NetTypeOK'
BY NoneWritten, Bounds
   DEF NetTypeOK, BeginSave, netifVars, Stages

LEMMA TypeStep == NetTypeOK /\ [NetNext]_netVars => NetTypeOK'
<1> SUFFICES ASSUME NetTypeOK, [NetNext]_netVars PROVE NetTypeOK'
  OBVIOUS
<1> USE DEF Fault, netifVars, workerVars, historyVars
<1>1. CASE EraseNvs
  BY <1>1, ConfigTypes, Bounds DEF EraseNvs, NetTypeOK, Stages
<1>2. ASSUME NEW lost \in SUBSET Keys, LoadConfig(lost) PROVE NetTypeOK'
  <2>1. Cardinality(lost) \in Nat
    BY KeysFinite, FS_Subset, FS_CardinalityType
  <2> QED  BY <1>2, <2>1, LoadType, Bounds
           DEF LoadConfig, NetTypeOK, Stages
<1>3. CASE StartEthernet
  BY <1>3 DEF StartEthernet, NetTypeOK, Stages
<1>4. CASE ApplyDhcp
  BY <1>4 DEF ApplyDhcp, DhcpcStart, NetTypeOK, Stages
<1>5. CASE GetStatus
  BY <1>5 DEF GetStatus, NetTypeOK, Stages
<1>6. CASE StopDhcp
  BY <1>6 DEF StopDhcp, NetTypeOK, Stages
<1>7. CASE SetAddress
  <2>1. CASE dhcpc # "STOPPED"
    BY <1>7, <2>1, RestartType DEF SetAddress, NetTypeOK
  <2>2. CASE dhcpc = "STOPPED"
    BY <1>7, <2>2 DEF SetAddress, NetTypeOK, Stages, Configs, AddrKeys
  <2> QED  BY <2>1, <2>2
<1>8. CASE Connected \/ Disconnected \/ GotLease
  <2>1. CASE Connected
    BY <2>1 DEF Connected, NetTypeOK
  <2>2. CASE Disconnected
    <3>1. CASE dhcpc = "STARTED"
      <4>1. address' = [k \in AddrKeys |->
                          IF k \in DnsKeys THEN address[k] ELSE 0]
        BY <2>2, <3>1 DEF Disconnected
      <4>2. address' \in [AddrKeys -> Nat]
        BY <4>1 DEF NetTypeOK
      <4> QED  BY <2>2, <3>1, <4>2 DEF Disconnected, NetTypeOK
    <3>2. CASE dhcpc # "STARTED"
      BY <2>2, <3>2 DEF Disconnected, NetTypeOK
    <3> QED  BY <3>1, <3>2
  <2>3. CASE GotLease
    BY <2>3, StaticTypes DEF GotLease, NetTypeOK
  <2> QED  BY <1>8, <2>1, <2>2, <2>3
<1>9. CASE SetDhcp
  BY <1>9, BeginSaveType, ConfigTypes DEF SetDhcp
<1>10. ASSUME NEW config \in Statics, SetStatic(config) PROVE NetTypeOK'
  BY <1>10, BeginSaveType, StaticTypes DEF SetStatic
<1>11. CASE OpenNvs
  BY <1>11 DEF OpenNvs, NetTypeOK
<1>12. CASE SetKey
  BY <1>12, KeyCount, KeyOrder DEF SetKey, NetTypeOK, Configs
<1>13. CASE Commit
  <2>1. faults' \in 0..MaxFaults
    BY <1>13, Bounds DEF Commit, NetTypeOK
  <2> QED  BY <1>13, <2>1, ConfigTypes, NoneWritten
           DEF Commit, EndSave, NetTypeOK
<1>14. CASE SaveFails
  BY <1>14, ConfigTypes, NoneWritten, Bounds
     DEF SaveFails, EndSave, NetTypeOK
<1>15. CASE RebootCommand
  BY <1>15 DEF RebootCommand, NetTypeOK
<1>16. CASE DelayedReboot
  BY <1>16, RestartType DEF DelayedReboot, NetTypeOK
<1>17. CASE Crash
  BY <1>17, RestartType, Bounds DEF Crash, NetTypeOK
<1>18. CASE UNCHANGED netVars
  BY <1>18 DEF netVars, NetTypeOK
<1> QED  BY <1>1, <1>2, <1>3, <1>4, <1>5, <1>6, <1>7, <1>8, <1>9, <1>10,
            <1>11, <1>12, <1>13, <1>14, <1>15, <1>16, <1>17, <1>18 DEF NetNext

-----------------------------------------------------------------------------
(* What web_api_task writes, and what NVS holds. *)

(* A restart ends every save; only app_main reads NVS. *)
LEMMA RestartStorage ==
    ASSUME IInv, Restart
    PROVE  Saving' /\ Storage' /\ Applying'
<1> USE DEF Restart, historyVars
<1>1. Stored' = Stored
  BY DEF Stored, Load
<1>2. Saving'
  BY DEF Saving
<1>3. Storage'
  BY <1>1 DEF IInv, Storage, SavedIsStored, AcceptedSurvives, DhcpNeverMixes
<1>4. Applying'
  BY DEF Applying
<1> QED  BY <1>2, <1>3, <1>4

(* Steps that leave NVS, the copy in RAM, web_api_task and the history be, *)
(* and do not begin a boot.                                                *)
LEMMA StorageFrame ==
    ASSUME Saving, Storage,
           UNCHANGED <<nvs, s_saved_config, wpc, written, target, accepted,
                       later, stale>>,
           stage # "nvs", stage = "running" => stage' = "running"
    PROVE  Saving' /\ Storage'
<1>1. Stored' = Stored
  BY DEF Stored, Load
<1>2. Saving'
  BY DEF Saving
<1>3. Storage'
  BY <1>1 DEF Storage, SavedIsStored, AcceptedSurvives, DhcpNeverMixes
<1> QED  BY <1>2, <1>3

(* A save begins: its configuration is among those begun since. *)
LEMMA BeginSaveStorage ==
    ASSUME IInv, NEW config \in Configs, BeginSave(config)
    PROVE  Saving' /\ Storage'
<1> USE DEF BeginSave, IInv, Saving, Storage
<1>1. Stored' = Stored
  BY DEF Stored, Load
<1>2. Saving'
  OBVIOUS
<1>3. SavedIsStored'
  BY DEF SavedIsStored
<1>4. AcceptedSurvives'
  BY <1>1 DEF AcceptedSurvives
<1>5. DhcpNeverMixes'
  BY <1>1 DEF DhcpNeverMixes
<1> QED  BY <1>2, <1>3, <1>4, <1>5

(* A key is set: it now holds a value of a configuration begun since; and  *)
(* as dhcp comes first, it is set once any key is.                         *)
LEMMA SetKeyStorage ==
    ASSUME IInv, SetKey
    PROVE  Saving' /\ Storage'
<1> DEFINE key == Key[written + 1]
<1>1. /\ written \in 0..5
      /\ key \in Keys
      /\ stage = "running" /\ target \in later /\ target \in Configs
      /\ s_saved_config = target
      /\ nvs \in [Keys -> Nat \cup {Absent}]
  BY KeyCount, KeyOrder DEF IInv, NetTypeOK, Saving, SetKey
<1>2. /\ nvs' = [nvs EXCEPT ![key] = target[key]]
      /\ written' = written + 1
      /\ wpc = "write" /\ wpc' = "write"
      /\ UNCHANGED <<s_saved_config, stage, target, accepted, later>>
  BY DEF SetKey, historyVars, netifVars
<1>3. target[key] \in Nat /\ target[key] # Absent
  BY <1>1, NetConfigAssumption DEF Configs
<1>4. \A k \in Keys : Stored'[k] = IF k = key THEN target[k] ELSE Stored[k]
  BY <1>1, <1>2, <1>3 DEF Stored, Load
<1>5. Saving'
  <2>1. ASSUME NEW i \in 1..written' PROVE nvs'[Key[i]] = target'[Key[i]]
    <3>1. CASE i = written + 1
      BY <1>1, <1>2, <3>1
    <3>2. CASE i # written + 1
      <4>1. i \in 1..written /\ i \in 1..6
        BY <1>1, <1>2, <3>2
      <4>2. nvs[Key[i]] = target[Key[i]] /\ Key[i] \in Keys
        BY <4>1, KeyOrder DEF IInv, Saving
      <4> QED  BY <1>1, <1>2, <4>2
    <3> QED  BY <3>1, <3>2
  <2> QED  BY <1>1, <1>2, <2>1 DEF Saving
<1>6. SavedIsStored'
  BY <1>2 DEF SavedIsStored
<1>7. AcceptedSurvives'
  BY <1>1, <1>2, <1>4 DEF AcceptedSurvives, IInv, Storage
<1>8. DhcpNeverMixes'
  <2>1. SUFFICES ASSUME later \subseteq {DhcpConfig}
                 PROVE  Stored'["dhcp"] = 1
    BY <1>2 DEF DhcpNeverMixes
  <2>2. target["dhcp"] = 1 /\ "dhcp" \in Keys
    BY <1>1, <2>1 DEF DhcpConfig, Keys
  <2>3. CASE written = 0
    BY <1>4, <2>2, <2>3, KeyOrder
  <2>4. CASE written # 0
    <3>1. 1 \in 1..written
      BY <1>1, <2>4
    <3>2. nvs["dhcp"] = 1
      BY <2>2, <3>1, KeyOrder DEF IInv, Saving
    <3>3. Stored["dhcp"] = 1
      BY <2>2, <3>2, StoredValue, NetConfigAssumption
    <3> QED  BY <1>4, <2>2, <3>3
  <2> QED  BY <2>3, <2>4
<1> QED  BY <1>5, <1>6, <1>7, <1>8 DEF Storage

(* All keys are set: NVS holds the configuration as a whole. *)
LEMMA CommitStorage ==
    ASSUME IInv, Commit
    PROVE  Saving' /\ Storage'
<1>1. /\ written = 6 /\ target \in Configs /\ s_saved_config = target
      /\ s_saved_config' = target /\ accepted' = target /\ later' = {}
      /\ wpc' = "idle" /\ written' = 0 /\ UNCHANGED nvs
  BY KeyCount DEF IInv, NetTypeOK, Saving, Commit, EndSave
<1>2. ASSUME NEW k \in Keys PROVE Stored[k] = target[k]
  <2>1. nvs[k] = target[k]
    BY <1>1, KeyOrder DEF IInv, Saving
  <2>2. target[k] # Absent
    BY <1>1, NetConfigAssumption DEF Configs
  <2> QED  BY <2>1, <2>2, StoredValue
<1>3. Stored = target
  BY <1>1, <1>2, StoredEquals
<1>4. Stored' = target
  BY <1>1, <1>3 DEF Stored, Load
<1>5. Saving'
  BY <1>1 DEF Saving
<1>6. Storage'
  BY <1>1, <1>4 DEF Storage, SavedIsStored, AcceptedSurvives, DhcpNeverMixes
<1> QED  BY <1>5, <1>6

-----------------------------------------------------------------------------
(* The boot. *)

(* Steps of web_api_task while the device runs do not touch the netif. *)
LEMMA ApplyingFrame ==
    ASSUME Applying, stage = "running",
           UNCHANGED <<stage, dhcpc, address, booted>>
    PROVE  Applying'
BY DEF Applying

LEMMA EraseNvsInv ==
    ASSUME IInv, EraseNvs
    PROVE  Saving' /\ Storage' /\ Applying'
<1> USE DEF EraseNvs, workerVars, netifVars
<1>1. Stored' = DhcpConfig
  <2>1. nvs' = [k \in Keys |-> Absent]
    OBVIOUS
  <2> QED  BY <2>1 DEF Stored, Load, DhcpConfig
<1>2. Saving'
  BY DEF IInv, Saving
<1>3. Storage'
  BY <1>1 DEF Storage, SavedIsStored, AcceptedSurvives, DhcpNeverMixes
<1>4. Applying'
  BY DEF Applying
<1> QED  BY <1>2, <1>3, <1>4

LEMMA LoadConfigInv ==
    ASSUME IInv, NEW lost \in SUBSET Keys, LoadConfig(lost)
    PROVE  Saving' /\ Storage' /\ Applying'
<1> USE DEF LoadConfig, workerVars, netifVars, historyVars
<1>1. Stored' = Stored
  BY DEF Stored, Load
<1>2. Saving'
  BY DEF IInv, Saving
<1>3. ~stale' => s_saved_config' = Stored'
  BY <1>1 DEF Stored
<1>4. Storage'
  BY <1>1, <1>3
     DEF IInv, Storage, SavedIsStored, AcceptedSurvives, DhcpNeverMixes
<1>5. Applying'
  BY DEF Applying
<1> QED  BY <1>2, <1>4, <1>5

(* SetAddress runs with the client stopped, so the assertion never fails,  *)
(* and every address that is configured is set.                            *)
LEMMA SetAddressInv ==
    ASSUME IInv, SetAddress
    PROVE  Saving' /\ Storage' /\ Applying'
<1>1. dhcpc = "STOPPED" /\ stage = "set_ip" /\ booted = s_saved_config
  BY DEF IInv, Applying, SetAddress
<1>2. /\ address' = [k \in AddrKeys |->
                       IF k \in DnsKeys /\ s_saved_config[k] = 0
                       THEN address[k] ELSE s_saved_config[k]]
      /\ stage' = "running"
      /\ UNCHANGED <<nvs, s_saved_config, dhcpc, workerVars, booted,
                     historyVars, stale>>
  BY <1>1 DEF SetAddress
<1>3. Saving' /\ Storage'
  BY <1>1, <1>2, StorageFrame DEF IInv, workerVars, historyVars
<1>4. Applying'
  BY <1>1, <1>2 DEF Applying
<1> QED  BY <1>3, <1>4

(* The event loop starts a client that waits, never one that was stopped. *)
LEMMA LinkInv ==
    ASSUME IInv, Connected \/ Disconnected \/ GotLease
    PROVE  Saving' /\ Storage' /\ Applying'
<1>1. /\ stage' = stage /\ booted' = booted
      /\ s_saved_config' = s_saved_config
      /\ dhcpc = "STOPPED" => dhcpc' = "STOPPED" /\ address' = address
      /\ UNCHANGED <<nvs, workerVars, historyVars, stale>>
  BY DEF Connected, Disconnected, GotLease
<1>2. Applying'
  BY <1>1 DEF IInv, Applying
<1>3. Stored' = Stored
  BY <1>1 DEF Stored, Load
<1>4. Saving'
  BY <1>1 DEF IInv, Saving, workerVars, historyVars
<1>5. Storage'
  BY <1>1, <1>3 DEF IInv, Storage, SavedIsStored, AcceptedSurvives,
                    DhcpNeverMixes, workerVars, historyVars
<1> QED  BY <1>2, <1>4, <1>5

-----------------------------------------------------------------------------

LEMMA StepInv == IInv /\ [NetNext]_netVars => IInv'
<1> SUFFICES ASSUME IInv, [NetNext]_netVars
             PROVE  Saving' /\ Storage' /\ Applying'
  BY TypeStep DEF IInv
<1> USE DEF netifVars, workerVars, historyVars
<1>1. CASE EraseNvs
  BY <1>1, EraseNvsInv
<1>2. ASSUME NEW lost \in SUBSET Keys, LoadConfig(lost)
      PROVE  Saving' /\ Storage' /\ Applying'
  BY <1>2, LoadConfigInv
<1>3. CASE StartEthernet
  <2>1. Applying'
    BY <1>3 DEF StartEthernet, Applying
  <2> QED  BY <1>3, <2>1, StorageFrame DEF IInv, StartEthernet
<1>4. CASE ApplyDhcp
  <2>1. Applying'
    BY <1>4 DEF ApplyDhcp, IInv, Applying
  <2> QED  BY <1>4, <2>1, StorageFrame DEF IInv, ApplyDhcp
<1>5. CASE GetStatus
  <2>1. Applying'
    BY <1>5 DEF GetStatus, IInv, Applying
  <2> QED  BY <1>5, <2>1, StorageFrame DEF IInv, GetStatus
<1>6. CASE StopDhcp
  <2>1. Applying'
    BY <1>6 DEF StopDhcp, IInv, Applying
  <2> QED  BY <1>6, <2>1, StorageFrame DEF IInv, StopDhcp
<1>7. CASE SetAddress
  BY <1>7, SetAddressInv
<1>8. CASE Connected \/ Disconnected \/ GotLease
  BY <1>8, LinkInv
<1>9. ASSUME NEW config \in Configs, BeginSave(config)
      PROVE  Saving' /\ Storage' /\ Applying'
  <2>1. Applying'
    BY <1>9, ApplyingFrame DEF IInv, BeginSave
  <2> QED  BY <1>9, <2>1, BeginSaveStorage
<1>10. CASE SetDhcp
  BY <1>9, <1>10, ConfigTypes DEF SetDhcp
<1>11. ASSUME NEW config \in Statics, SetStatic(config)
       PROVE  Saving' /\ Storage' /\ Applying'
  BY <1>9, <1>11, StaticTypes DEF SetStatic
<1>12. CASE OpenNvs
  <2>1. Stored' = Stored /\ stage = "running"
    BY <1>12 DEF OpenNvs, Stored, Load, IInv, Saving
  <2>2. Saving'
    BY <1>12 DEF OpenNvs, IInv, Saving
  <2>3. Storage'
    BY <1>12, <2>1 DEF OpenNvs, IInv, Storage, SavedIsStored,
                       AcceptedSurvives, DhcpNeverMixes
  <2>4. Applying'
    BY <1>12, <2>1, ApplyingFrame DEF IInv, OpenNvs
  <2> QED  BY <2>2, <2>3, <2>4
<1>13. CASE SetKey
  <2>1. stage = "running"
    BY <1>13 DEF SetKey, IInv, Saving
  <2> QED  BY <1>13, <2>1, SetKeyStorage, ApplyingFrame DEF SetKey, IInv
<1>14. CASE Commit
  <2>1. stage = "running"
    BY <1>14 DEF Commit, IInv, Saving
  <2> QED  BY <1>14, <2>1, CommitStorage, ApplyingFrame DEF Commit, IInv
<1>15. CASE SaveFails
  <2>1. Stored' = Stored /\ stage = "running"
    BY <1>15 DEF SaveFails, Stored, Load, IInv, Saving
  <2>2. Saving'
    BY <1>15 DEF SaveFails, EndSave, Saving
  <2>3. Storage'
    BY <1>15, <2>1 DEF SaveFails, IInv, Storage, SavedIsStored,
                       AcceptedSurvives, DhcpNeverMixes
  <2>4. Applying'
    BY <1>15, <2>1, ApplyingFrame DEF IInv, SaveFails
  <2> QED  BY <2>2, <2>3, <2>4
<1>16. CASE RebootCommand
  <2>1. Applying'
    BY <1>16, ApplyingFrame DEF IInv, RebootCommand
  <2> QED  BY <1>16, <2>1, StorageFrame DEF IInv, RebootCommand
<1>17. CASE DelayedReboot \/ Crash
  BY <1>17, RestartStorage DEF DelayedReboot, Crash
<1>18. CASE UNCHANGED netVars
  <2>1. Stored' = Stored
    BY <1>18 DEF Stored, Load, netVars
  <2> QED  BY <1>18, <2>1
           DEF netVars, IInv, Saving, Storage, SavedIsStored,
               AcceptedSurvives, DhcpNeverMixes, Applying
<1> QED  BY <1>1, <1>2, <1>3, <1>4, <1>5, <1>6, <1>7, <1>8, <1>10, <1>11,
            <1>12, <1>13, <1>14, <1>15, <1>16, <1>17, <1>18 DEF NetNext

LEMMA Invariance == NetSpec => []IInv
<1>1. NetInit => IInv
  BY InitInv
<1>2. IInv /\ [NetNext]_netVars => IInv'
  BY StepInv
<1> QED  BY <1>1, <1>2, PTL DEF NetSpec

-----------------------------------------------------------------------------

(* The variables of network_config.c, nvs_config.c and the boot keep their *)
(* types: a key that is missing always gets its default.                   *)
THEOREM NetTypeCorrect == NetSpec => []NetTypeOK
<1>1. IInv => NetTypeOK
  BY DEF IInv
<1> QED  BY <1>1, Invariance, PTL

(* What the API reports as saved is what the next boot will load, unless a *)
(* save or a read has failed (network_config.c:47).                        *)
THEOREM ReportsWhatIsStored == NetSpec => []SavedIsStored
<1>1. IInv => SavedIsStored
  BY DEF IInv, Storage
<1> QED  BY <1>1, Invariance, PTL

(* However often saves are cut off, every key in NVS comes from the        *)
(* configuration last accepted or one whose save has begun since.          *)
THEOREM KeysAreAccountedFor == NetSpec => []AcceptedSurvives
<1>1. IInv => AcceptedSurvives
  BY DEF IInv, Storage
<1> QED  BY <1>1, Invariance, PTL

(* A switch to DHCP that is cut off anywhere is in effect or not begun. *)
THEOREM DhcpSwitchIsAtomic == NetSpec => []DhcpNeverMixes
<1>1. IInv => DhcpNeverMixes
  BY DEF IInv, Storage
<1> QED  BY <1>1, Invariance, PTL

(* A static address, once applied, stays, and is what the API shows. *)
THEOREM StaticAddressStays == NetSpec => []StaticStaysStatic
<1>1. ASSUME IInv PROVE StaticStaysStatic
  <2>1. SUFFICES ASSUME stage = "running", booted["dhcp"] = 0,
                        booted["ip"] # 0
                 PROVE  Shown["dhcp"] = 0 /\ Shown["ip"] = booted["ip"]
    BY <1>1 DEF StaticStaysStatic, IInv, Applying
  <2>2. dhcpc = "STOPPED" /\ address["ip"] = booted["ip"]
    BY <1>1, <2>1 DEF IInv, Applying, AddrKeys, Keys
  <2>3. Runtime["dhcp"] = 0 /\ Runtime["ip"] = booted["ip"]
    BY <2>2 DEF Runtime, Keys
  <2> QED  BY <2>1, <2>3 DEF Shown
<1> QED  BY <1>1, Invariance, PTL

=============================================================================
