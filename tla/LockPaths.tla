------------------------------ MODULE LockPaths ------------------------------
(***************************************************************************)
(* What the operations of the handlers do with the locks of the process:   *)
(* for each operation the set of paths a call may take, a path being the   *)
(* sequence of the locks it takes and gives back and of the shared state   *)
(* it uses in between.  A branch, an early return or a loop that makes no  *)
(* difference to the locks and to the state is not a path of its own.      *)
(*                                                                         *)
(* A piece of state is named by the profile whose lock is there for it and *)
(* by its kind: the instances of its tables with their backups of values,  *)
(* the counters of its table events, the hash table of its notifications.  *)
(* Shared lists the pieces that the code also uses without that lock.      *)
(*                                                                         *)
(* The build is the one with the value change events and all the profiles. *)
(* The visits of the Time, STBService and XRE handlers and the resets of   *)
(* DHCPv4 and XRE are left out: nothing calls them.  unInit runs when the  *)
(* threads of the requests are gone.                                       *)
(***************************************************************************)
EXTENDS Integers, Sequences

None == "none"

(* The locks in the order they are taken: of the dispatch, of the          *)
(* profiles, of what profiles share, of the add and remove events.         *)
Tiers == <<{"get_handler", "set_handler"},
           {"Ethernet", "MoCA", "IP", "IPClient", "DeviceInfo", "Process",
            "DHCPv4", "InterfaceStack", "Storage", "STBService", "XRE", "SNMP",
            "Time", "x_rdk"},
           {"MoCADevice", "libproc", "BlueTooth", "XBSStore"},
           {"events"}>>
AllLocks == UNION {Tiers[i] : i \in 1..4}
Tier(l) == CHOOSE i \in 1..4 : l \in Tiers[i]

(* Those made by the first call of getLock; the others are objects.        *)
Lazy == {"Ethernet", "MoCA", "IP", "DeviceInfo", "Process", "DHCPv4",
         "InterfaceStack", "Storage", "STBService", "XRE", "SNMP", "Time",
         "libproc"}

Shared == {<<"Ethernet", "instances">>, <<"MoCA", "instances">>,
           <<"MoCADevice", "handle">>,
           <<"IP", "instances">>, <<"IP", "counters">>,
           <<"Process", "counters">>, <<"SNMP", "instances">>}
          \cup {<<"XBSStore", "dictionaries">>,
                <<"WiFi", "instances">>, <<"WiFi", "counters">>}

Of(owner, kinds) == {owner} \X kinds

Lock(l) == [op |-> "lock", lock |-> l, uses |-> {}]
Unlock(l) == [op |-> "unlock", lock |-> l, uses |-> {}]
Use(states) == [op |-> "use", lock |-> None, uses |-> states]

Held(l, path) == <<Lock(l)>> \o path \o <<Unlock(l)>>
Locked(l, states) == Held(l, <<Use(states)>>)

-----------------------------------------------------------------------------
(* Ethernet                                                                *)

(* Mutant: the counters are cleared without the lock.                      *)
XEthernetResetUnlocked == {<<Use(Of("Ethernet", {"counters"}))>>}

EthernetReset == {Locked("Ethernet", Of("Ethernet", {"counters"}))}

(* A name of another table gives back a lock that was not taken.           *)
EthernetSet ==
    {Held("Ethernet", <<>>), Locked("Ethernet", Of("Ethernet", {"instances"})),
     <<Unlock("Ethernet")>>}

EthernetGet ==
    {Held("Ethernet", <<>>), Locked("Ethernet", Of("Ethernet", {"instances"}))}

EthernetGetAttributes ==
    {Locked("Ethernet", Of("Ethernet", {"instances", "notify"}))}

(* Mutant: an early return keeps the lock.                                 *)
XEthernetSetAttributesKeep ==
    {<<Lock("Ethernet"), Use(Of("Ethernet", {"instances"}))>>,
     Locked("Ethernet", Of("Ethernet", {"instances", "notify"}))}

EthernetSetAttributes ==
    {Locked("Ethernet", Of("Ethernet", {"instances"})),
     Locked("Ethernet", Of("Ethernet", {"instances", "notify"}))}

(* A notification of instance 0 gives the lock back inside the loop.       *)
EthernetVisit ==
    LET events == <<Use(Of("Ethernet", {"instances", "counters"}))>>
        changes == <<Use(Of("Ethernet", {"instances", "notify"}))>>
    IN {Held("Ethernet", events \o changes),
        Held("Ethernet", events \o changes \o <<Unlock("Ethernet")>> \o changes)}

-----------------------------------------------------------------------------
(* MoCA.  A getter has the RMH handle made anew, which destroys that of    *)
(* every other, and uses it when the lock of the device is given back.     *)

getRmhContext == Locked("MoCADevice", Of("MoCADevice", {"handle"}))

MoCAValue == getRmhContext
             \o <<Use(Of("MoCADevice", {"handle"}) \cup Of("MoCA", {"instances"}))>>

MoCAReset == {Locked("MoCA", Of("MoCA", {"counters"}))}

MoCASet ==
    {Held("MoCA", MoCAValue), Held("MoCA", <<>>), <<Unlock("MoCA")>>}

(* The settings of the interface; its power and its frequencies; its       *)
(* statistics.                                                             *)
MoCAGetInterface == {Held("MoCA", <<>>), Held("MoCA", MoCAValue)}

MoCAGetPower == {Held("MoCA", <<>>), Held("MoCA", MoCAValue)}

MoCAGetStats == {Held("MoCA", <<>>), Held("MoCA", MoCAValue)}

(* Refuses without asking.                                                 *)
MoCAGetFlowStats == {Held("MoCA", <<>>)}

MoCAGetAssociated == {Held("MoCA", <<>>), Held("MoCA", MoCAValue)}

(* Has an RMH handle of its own for the time of the call.                  *)
MoCAGetMesh == {Held("MoCA", <<>>)}

MoCAGet ==
    MoCAGetInterface \cup MoCAGetPower \cup MoCAGetStats \cup
    MoCAGetFlowStats \cup MoCAGetAssociated \cup MoCAGetMesh

MoCAGetAttributes == {Locked("MoCA", Of("MoCA", {"instances", "notify"}))}

MoCASetAttributes == {Locked("MoCA", Of("MoCA", {"instances", "notify"}))}

MoCAVisit ==
    {Held("MoCA", MoCAValue \o <<Use(Of("MoCA", {"counters"}))>>
                  \o <<Use(Of("MoCA", {"notify"}))>> \o MoCAValue)}

-----------------------------------------------------------------------------
(* A get or a set of the bootstrap store.  getRawValue gives the lock back *)
(* and then returns what its iterator points to.                           *)

BSCall == Locked("XBSStore", Of("XBSStore", {"dictionaries"}))
          \o <<Use(Of("XBSStore", {"dictionaries"}))>>

-----------------------------------------------------------------------------
(* Time                                                                    *)

TimeSet ==
    {<<>>, Held("Time", <<>>), Locked("Time", Of("Time", {"instances"})),
     Held("Time", BSCall)}

TimeGet ==
    {<<>>, Held("Time", <<>>), Locked("Time", Of("Time", {"instances"})),
     Held("Time", BSCall)}

TimeGetAttributes == {Locked("Time", Of("Time", {"instances", "notify"}))}

TimeSetAttributes == {Locked("Time", Of("Time", {"instances", "notify"}))}

-----------------------------------------------------------------------------
(* The add and remove events that go one by one.                           *)
sendAddRemoveEvents(counters) ==
    Locked("events", Of("events", {"instancePath"}) \cup counters)

-----------------------------------------------------------------------------
(* IP.  Requests and resets take the lock of the handler; the first part   *)
(* of the visit takes that of the profile.                                 *)

IPReset == {Locked("IPClient", Of("IP", {"counters"}))}

IPGet ==
    {Held("IPClient", <<>>), Locked("IPClient", Of("IP", {"instances"})),
     Locked("IPClient", Of("IPClient", {"diagnostics"}))}

IPSet ==
    {Held("IPClient", <<>>), Locked("IPClient", Of("IP", {"instances"})),
     Locked("IPClient", Of("IPClient", {"diagnostics"}))}

IPGetAttributes ==
    {Locked("IPClient", Of("IP", {"instances"}) \cup Of("IPClient", {"notify"}))}

IPSetAttributes ==
    {Locked("IPClient", Of("IP", {"instances"}) \cup Of("IPClient", {"notify"}))}

(* The tables of the interfaces and of the addresses, and of the ports.    *)
IPVisitEvents ==
    Held("IP", <<Use(Of("IP", {"instances"}))>>
               \o sendAddRemoveEvents(Of("IP", {"counters"})))

IPVisitChanges ==
    Locked("IPClient", Of("IP", {"instances"}) \cup Of("IPClient", {"notify"}))

IPVisit == {IPVisitEvents \o IPVisitEvents \o IPVisitChanges}

-----------------------------------------------------------------------------
(* The processes: libproc works on statics.                                *)

getNumOfProcessEntries == Locked("libproc", Of("libproc", {"statics"}))

ProcessField == Locked("libproc", Of("libproc", {"statics"}))

-----------------------------------------------------------------------------
(* Bluetooth                                                               *)

BTReset == Locked("BlueTooth", Of("BlueTooth", {"counters"}))

BTSet == Locked("BlueTooth", Of("BlueTooth", {"device info"}))

BTGet == Locked("BlueTooth", Of("BlueTooth", {"device info"}))

(* Mutant: the lists of the devices are fetched inside the lock of events. *)
XBTVisitInside ==
    Held("events", Locked("BlueTooth", Of("BlueTooth", {"counters"})))

BTVisit ==
    Held("BlueTooth", sendAddRemoveEvents(Of("BlueTooth", {"counters"})))

-----------------------------------------------------------------------------
(* DeviceInfo                                                              *)

DeviceReset ==
    {Locked("DeviceInfo", Of("DeviceInfo", {"counters"}) \cup Of("Process", {"counters"}))}

DeviceSetBootstrap == {Held("DeviceInfo", <<>>), Held("DeviceInfo", BSCall)}

DeviceSetParameter ==
    {Locked("DeviceInfo", Of("SNMP", {"instances"})),
     Held("DeviceInfo", <<>>),
     Locked("DeviceInfo", Of("DeviceInfo", {"instances", "RFC store"})),
     Held("DeviceInfo", BTSet)}

DeviceSet == DeviceSetBootstrap \cup DeviceSetParameter

(* Bootstrap, processes and processors.                                    *)
DeviceGetProcess ==
    {Held("DeviceInfo", <<>>), Held("DeviceInfo", BSCall),
     Held("DeviceInfo", ProcessField),
     Held("DeviceInfo", getNumOfProcessEntries),
     Locked("DeviceInfo", Of("DeviceInfo", {"instances"}))}

(* The boot status asks the interface of MoCA, without its lock.           *)
get_Device_DeviceInfo_X_RDKCENTRAL_COM_BootStatus == MoCAValue

(* What other profiles answer, and DeviceInfo itself.                      *)
DeviceGetOther ==
    {Held("DeviceInfo", <<>>), Held("DeviceInfo", BTGet),
     Locked("DeviceInfo", Of("SNMP", {"instances"}))}

DeviceGetParameter ==
    {Held("DeviceInfo", <<>>),
     Locked("DeviceInfo", Of("DeviceInfo", {"instances", "RFC store"})),
     Held("DeviceInfo",
          get_Device_DeviceInfo_X_RDKCENTRAL_COM_BootStatus)}

DeviceGet == DeviceGetProcess \cup DeviceGetOther \cup DeviceGetParameter

DeviceGetAttributes ==
    {Held("DeviceInfo", <<>>), Locked("DeviceInfo", Of("DeviceInfo", {"instances", "notify"}))}

DeviceSetAttributes ==
    {Held("DeviceInfo", <<>>), Locked("DeviceInfo", Of("DeviceInfo", {"instances", "notify"}))}

DeviceVisitProcesses ==
    Held("Process",
         getNumOfProcessEntries \o <<Use(Of("Process", {"counters"}))>>)

DeviceVisitChanges ==
    Held("DeviceInfo",
         <<Use(Of("DeviceInfo", {"instances", "counters", "notify"}))>>
         \o ProcessField)

DeviceVisit == {DeviceVisitProcesses \o DeviceVisitChanges}

-----------------------------------------------------------------------------
(* DHCPv4.  Its clients are found through the interfaces of IP.            *)

(* The manager of these three takes the lock of its profile when asked for *)
(* its only instance.                                                      *)
DHCPv4ClientReqHandler == Locked("DHCPv4", Of("DHCPv4", {"manager"}))

DHCPv4Tables == Of("DHCPv4", {"instances"}) \cup Of("IP", {"instances"})

DHCPv4Set == {<<>>}

DHCPv4Get == {Locked("DHCPv4", DHCPv4Tables)}

DHCPv4GetAttributes ==
    {Held("DHCPv4", <<>>), Locked("DHCPv4", Of("DHCPv4", {"instances", "notify"}))}

DHCPv4SetAttributes ==
    {Held("DHCPv4", <<>>), Locked("DHCPv4", Of("DHCPv4", {"instances", "notify"}))}

DHCPv4Visit ==
    {Held("DHCPv4", <<Use(DHCPv4Tables \cup Of("DHCPv4", {"counters"}))>>
                    \o <<Use(DHCPv4Tables \cup Of("DHCPv4", {"notify"}))>>)}

-----------------------------------------------------------------------------
(* InterfaceStack.  A count makes the table anew from those of IP,         *)
(* Ethernet and MoCA.                                                      *)

InterfaceStackClientReqHandler ==
    Locked("InterfaceStack", Of("InterfaceStack", {"manager"}))

get_Device_InterfaceStackNumberOfEntries ==
    <<Use(Of("InterfaceStack", {"instances"}) \cup Of("IP", {"instances"})
          \cup Of("Ethernet", {"instances"}))>>
    \o MoCAValue

InterfaceStackReset ==
    {Locked("InterfaceStack", Of("InterfaceStack", {"counters"}))}

InterfaceStackSet == {<<>>}

InterfaceStackGet ==
    {Locked("InterfaceStack", Of("InterfaceStack", {"instances"})),
     Held("InterfaceStack", get_Device_InterfaceStackNumberOfEntries)}

InterfaceStackGetAttributes ==
    {Held("InterfaceStack", <<>>),
     Locked("InterfaceStack", Of("InterfaceStack", {"instances", "notify"}))}

InterfaceStackSetAttributes ==
    {Held("InterfaceStack", <<>>),
     Locked("InterfaceStack", Of("InterfaceStack", {"instances", "notify"}))}

InterfaceStackVisit ==
    {Held("InterfaceStack",
          get_Device_InterfaceStackNumberOfEntries
          \o <<Use(Of("InterfaceStack", {"instances", "counters", "notify"}))>>)}

-----------------------------------------------------------------------------
(* Storage                                                                 *)

StorageSrvcReqHandler == Locked("Storage", Of("Storage", {"manager"}))

StorageSet == {<<>>}

StorageGet == {Locked("Storage", Of("Storage", {"instances"}))}

StorageAttributes == {Held("Storage", <<>>)}

-----------------------------------------------------------------------------
(* STBService: one lock for all the components.                            *)

DSSet == {Held("STBService", <<>>), Locked("STBService", Of("STBService", {"instances"}))}

DSGet == {Held("STBService", <<>>), Locked("STBService", Of("STBService", {"instances"}))}

DSAttributes == {Held("STBService", <<>>)}

-----------------------------------------------------------------------------
(* XRE                                                                     *)

XRESet == {Locked("XRE", Of("XRE", {"values"}))}

XREGet == {Locked("XRE", Of("XRE", {"values"}))}

XREAttributes == {Held("XRE", <<>>)}

-----------------------------------------------------------------------------
(* SNMP.  DeviceInfo uses the same adapter under its own lock.             *)

SNMPSet == {Held("SNMP", <<>>), Locked("SNMP", Of("SNMP", {"instances"}))}

SNMPGet == {Held("SNMP", <<>>), Locked("SNMP", Of("SNMP", {"instances"}))}

SNMPGetAttributes ==
    {Locked("SNMP", Of("SNMP", {"instances", "notify"}))}

SNMPSetAttributes ==
    {Held("SNMP", <<>>), Locked("SNMP", Of("SNMP", {"instances", "notify"}))}

-----------------------------------------------------------------------------
(* x_rdk                                                                   *)

X_rdkSet == {Held("x_rdk", <<>>), Held("x_rdk", BSCall)}

X_rdkGet == {Held("x_rdk", <<>>), Held("x_rdk", BSCall)}

-----------------------------------------------------------------------------
(* WiFi takes no lock.                                                     *)

WiFiReset == {<<Use(Of("WiFi", {"counters"}))>>}

WiFiSet == {<<>>, <<Use(Of("WiFi", {"instances"}))>>}

WiFiGetCounts == {<<>>, <<Use(Of("WiFi", {"instances"}))>>}

WiFiGetRadio == {<<>>, <<Use(Of("WiFi", {"instances"}))>>}

(* The endpoint, the access points and the SSID.                           *)
WiFiGetEndPoint == {<<>>, <<Use(Of("WiFi", {"instances"}))>>}

WiFiGetRoaming == {<<>>, <<Use(Of("WiFi", {"instances"}))>>}

WiFiGet ==
    WiFiGetCounts \cup WiFiGetRadio \cup WiFiGetEndPoint \cup WiFiGetRoaming

WiFiAttributes == {<<>>}

WiFiVisit ==
    {<<Use(Of("WiFi", {"instances"}))>>
     \o sendAddRemoveEvents(Of("WiFi", {"counters"}))}

-----------------------------------------------------------------------------
(* The dispatch of the requests and the thread of the updates              *)

hostIf_GetMsgHandler(manager, paths) ==
    {Held("get_handler", manager \o p) : p \in paths}

hostIf_SetMsgHandler(manager, paths) ==
    {Held("set_handler", manager \o p) : p \in paths}

hostIf_GetAttributesMsgHandler(manager, paths) ==
    {manager \o p : p \in paths}

hostIf_SetAttributesMsgHandler(manager, paths) ==
    {manager \o p : p \in paths}

(* The requests for one profile: its gets, its sets, those of attributes.  *)
Requests(manager, gets, sets, getAttributes, setAttributes) ==
    hostIf_GetMsgHandler(manager, gets)
    \cup hostIf_SetMsgHandler(manager, sets)
    \cup hostIf_GetAttributesMsgHandler(manager, getAttributes)
    \cup hostIf_SetAttributesMsgHandler(manager, setAttributes)

EthernetRequests ==
    Requests(<<>>, EthernetGet, EthernetSet, EthernetGetAttributes,
             EthernetSetAttributes)
MoCARequests ==
    Requests(<<>>, MoCAGet, MoCASet, MoCAGetAttributes, MoCASetAttributes)
TimeRequests ==
    Requests(<<>>, TimeGet, TimeSet, TimeGetAttributes, TimeSetAttributes)
IPRequests ==
    Requests(<<>>, IPGet, IPSet, IPGetAttributes, IPSetAttributes)
DeviceRequests ==
    Requests(<<>>, DeviceGet, DeviceSet, DeviceGetAttributes,
             DeviceSetAttributes)
DHCPv4Requests ==
    Requests(DHCPv4ClientReqHandler, DHCPv4Get, DHCPv4Set,
             DHCPv4GetAttributes, DHCPv4SetAttributes)
InterfaceStackRequests ==
    Requests(InterfaceStackClientReqHandler, InterfaceStackGet,
             InterfaceStackSet, InterfaceStackGetAttributes,
             InterfaceStackSetAttributes)
StorageRequests ==
    Requests(StorageSrvcReqHandler, StorageGet, StorageSet, StorageAttributes,
             StorageAttributes)
DSRequests == Requests(<<>>, DSGet, DSSet, DSAttributes, DSAttributes)
XRERequests == Requests(<<>>, XREGet, XRESet, XREAttributes, XREAttributes)
SNMPRequests ==
    Requests(<<>>, SNMPGet, SNMPSet, SNMPGetAttributes, SNMPSetAttributes)
X_rdkRequests == Requests(<<>>, X_rdkGet, X_rdkSet, {<<>>}, {<<>>})
WiFiRequests ==
    Requests(<<>>, WiFiGet, WiFiSet, WiFiAttributes, WiFiAttributes)
=============================================================================
