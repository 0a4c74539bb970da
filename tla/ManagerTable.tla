---------------------------- MODULE ManagerTable -----------------------------
(***************************************************************************)
(* The parameters of the requests, one of each class that the program      *)
(* treats in a way of its own, and the table that says which manager       *)
(* serves a name: each line of mgrlist.conf has a prefix and a manager,    *)
(* and the first key of the hash table that is a prefix of the name        *)
(* decides, in an order which depends on the hash.                         *)
(***************************************************************************)
EXTENDS Integers, Sequences

None == "none"

(* PartnerName: in the bootstrap store.  Feature: there too, by a name of  *)
(* an RFC.  DNSText: there too, through the manager of X_RDK.              *)
(* Airplay: in the RFC store.  Hdr: there too, and acted on at once.       *)
(* PartnerId: kept by the system.                                          *)
(* RebootReason: read only by the code, not by the data model.             *)
(* MacAddress: read only by both.  Profiles: kept by the telemetry process *)
(* on rbus.  Reboot: in nobody's data model but another process's on rbus. *)
(* Docsis: a value of the SNMP agent.  RFC_Url: a variable of the RFC      *)
(* scripts.                                                                *)
Name == {"PartnerName", "Feature", "DNSText", "Airplay", "Hdr", "PartnerId",
         "RebootReason", "MacAddress", "Profiles", "Reboot", "Docsis",
         "RFC_Url"}

DataModel == {"PartnerName", "Feature", "DNSText", "Airplay", "Hdr",
              "PartnerId", "RebootReason", "MacAddress", "Profiles"}
ReadOnly == {"MacAddress"}
AllUpdate == {"PartnerName", "Feature", "DNSText", "Profiles"}

(* getBSUpdateEnum; no parameter of the data model has rfcUpdate.          *)
getBSUpdateEnum(n) == IF n \in AllUpdate THEN "ALL" ELSE "NONE"

(* Names with the prefix TR181_RFC_PREFIX.                                 *)
RfcName == {"Feature", "Airplay", "Hdr"}

(* The children of Device.DeviceInfo., as the data model lists them.       *)
Children == <<"PartnerName", "Airplay">>

-----------------------------------------------------------------------------
(* The file, cut to the lines whose prefixes meet; webConfigMgr is no      *)
(* manager of the program.                                                 *)
File == <<[prefix |-> "Device.DeviceInfo", mgr |-> "deviceMgr"],
          [prefix |-> "Device.DeviceInfo.X_RDK_SNMP", mgr |-> "snmpAdapterMgr"],
          [prefix |-> "Device.X_RDK_WebConfig", mgr |-> "webConfigMgr"],
          [prefix |-> "Device.X_RDKCENTRAL-COM_T2", mgr |-> "telemetryMgr"],
          [prefix |-> "Device.X_RDK_", mgr |-> "rdkProfileMgr"]>>

Manager == {"deviceMgr", "snmpAdapterMgr", "telemetryMgr", "rdkProfileMgr"}

(* strncmp of a key and a name.                                            *)
Covers(prefix, n) ==
    CASE prefix = "Device.DeviceInfo" ->
             n \in {"PartnerName", "Feature", "Airplay", "Hdr",
                    "PartnerId", "RebootReason", "MacAddress", "Docsis"}
      [] prefix = "Device.DeviceInfo.X_RDK_SNMP" -> n = "Docsis"
      [] prefix = "Device.X_RDK_WebConfig" -> FALSE
      [] prefix = "Device.X_RDKCENTRAL-COM_T2" -> n = "Profiles"
      [] prefix = "Device.X_RDK_" -> n = "DNSText"

(* mgrName after line i: a name the program does not know leaves it.       *)
Known == {i \in 1..Len(File) : File[i].mgr \in Manager}
mgrName(i) == File[CHOOSE k \in Known : k <= i /\ \A j \in Known : j <= i => j <= k].mgr

(* The lines put into the table: all from the first known manager on.      *)
Entries == {i \in 1..Len(File) : \E k \in Known : k <= i}

(* Mutant: the last line of the file that covers the name is not compared. *)
GetMgrShort(place, n) ==
    LET keys == {i \in Entries \ {Len(File)} : Covers(File[i].prefix, n)}
    IN IF keys = {} THEN None
       ELSE mgrName(CHOOSE i \in keys : \A k \in keys : place[i] <= place[k])

(* HostIf_GetMgr with the keys in a given order: place[i] is that of the   *)
(* key of line i.                                                          *)
GetMgr(place, n) ==
    LET keys == {i \in Entries : Covers(File[i].prefix, n)}
    IN IF keys = {} THEN None
       ELSE mgrName(CHOOSE i \in keys : \A k \in keys : place[i] <= place[k])

(* The managers of the names for every order of the keys.                  *)
Tables ==
    {[n \in Name |-> GetMgr(place, n)] :
        place \in {p \in [Entries -> Entries] :
                      \A i, k \in Entries : p[i] = p[k] => i = k}}

-----------------------------------------------------------------------------
(* Mutant: nothing is left to the telemetry process.                       *)
NoExclusion == {}

(* init_rbus_dml_provider: the names the process answers for on rbus, all  *)
(* of the data model but those the telemetry process registers.            *)
ExclusionList == {"Profiles"}
Registered == DataModel \ ExclusionList
=============================================================================
