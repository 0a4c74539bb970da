--------------------------- MODULE WirelessGetters ---------------------------
(***************************************************************************)
(* The getters of WiFi, of the mesh of MoCA and of Bluetooth, in the terms *)
(* of ProfileGetters.  None of them keeps a backup.  A query fills all the *)
(* fields of a table at once, and for some seconds the getters answer from *)
(* them without asking again.                                              *)
(*                                                                         *)
(* Left out: what the request handlers do not serve, and the getters that  *)
(* answer OK and no value (access points, WPS, the profiles of the         *)
(* endpoint, the statistics of the SSID).                                  *)
(***************************************************************************)
EXTENDS ProfileGetters

(* Device.WiFi.  The numbers of access points and endpoints are constants; *)
(* for the switch of WiFi the result of the call is not looked at.         *)
WiFi_Counts ==
    [RadioNumberOfEntries |-> Refused, SSIDNumberOfEntries |-> Refused,
     AccessPointNumberOfEntries |-> Silent(Never),
     EndPointNumberOfEntries |-> Silent(Never), WiFiEnable |-> Silent(Blank)]

(* Device.WiFi.Radio and its statistics: a query that fails is only        *)
(* logged, and the next getter tries again.                                *)
checkWifiRadioFetch == Keeps

WiFi_Radio ==
    Each({"Enable", "Upstream", "AutoChannelSupported", "AutoChannelEnable",
          "IEEE80211hSupported", "IEEE80211hEnabled", "LastChange",
          "MaxBitRate", "Channel", "AutoChannelRefreshPeriod"},
         Silent(checkWifiRadioFetch))

WiFi_Radio_State ==
    Each({"MCS", "TransmitPower", "Status", "Alias", "Name",
          "SupportedFrequencyBands", "OperatingFrequencyBand"},
         Silent(checkWifiRadioFetch))

WiFi_Radio_Channels ==
    Each({"SupportedStandards", "OperatingStandards", "PossibleChannels",
          "ChannelsInUse", "OperatingChannelBandwidth", "ExtensionChannel",
          "GuardInterval", "LowerLayers", "TransmitPowerSupported",
          "RegulatoryDomain"}, Silent(checkWifiRadioFetch))

checkWifiRadioPropsFetch == Keeps

WiFi_Radio_Stats ==
    Each(Traffic \cup {"DiscardPacketsSent", "DiscardPacketsReceived",
                       "NoiseFloor"}, Silent(checkWifiRadioPropsFetch))

(* Device.WiFi.SSID                                                        *)
checkWifiSSIDFetch == Keeps

WiFi_SSID ==
    Each({"Enable", "Status", "Name", "BSSID", "MACAddress", "SSID"},
         Silent(checkWifiSSIDFetch))

(* Device.WiFi.EndPoint: a query that fails is told; one that was answered *)
(* is good for a second, unless the endpoint is off.                       *)
refreshCache == {"refuses", "keeps"}

WiFi_EndPoint == Each({"Enable", "Status", "Alias"}, Silent(refreshCache))

WiFi_EndPoint_Stats ==
    Each({"LastDataDownlinkRate", "LastDataUplinkRate", "SignalStrength",
          "Retransmissions"}, Silent(refreshCache))

WiFi_EndPoint_Security == [ModesEnabled |-> Refused]

(* Roaming: a query that fails fills the fields with zeros, all the same   *)
(* with the time of the query, and is answered OK.                         *)
get_Device_WiFi_Client_Roaming_Configs == {"blank"}

checkWifiClientRoamingropsFetch ==
    get_Device_WiFi_Client_Roaming_Configs \cup {"keeps"}

WiFi_ClientRoaming ==
    Each({"Enable", "PreAssn_BestThresholdLevel", "PreAssn_BestDeltaLevel",
          "SelfSteer_Override", "PostAssn_BestDeltaLevelConnected",
          "PostAssn_BestDeltaLevelDisconnected",
          "PostAssn_SelfSteerThresholdLevel",
          "PostAssn_SelfSteerTimeframe", "PostAssn_APcontrolThresholdLevel",
          "PostAssn_APcontrolTimeframe", "PostAssn_BackOffTime",
          "80211kvrEnable"}, Silent(checkWifiClientRoamingropsFetch))

-----------------------------------------------------------------------------
(* Device.MoCA.Interface.X_RDKCENTRAL-COM_MeshTable: the pair of nodes is  *)
(* looked for first; a failure to do so leaves the rows of the last time.  *)
InstanceToIndex == {"refuses", "keeps"}

MoCA_MeshTable ==
    Each({"MeshTxNodeId", "MeshRxNodeId", "MeshPHYTxRate", "BondedChannel"},
         Silent(InstanceToIndex))

-----------------------------------------------------------------------------
(* Device.DeviceInfo.X_RDKCENTRAL-COM_xBlueTooth.  The lists of devices    *)
(* are those of the last visit of the updates, which empties one that it   *)
(* cannot fetch; only whether a discovered device is connected is asked.   *)
BlueTooth_State == Each({"Enabled", "DiscoveryEnabled"}, Silent(Blank))

fetch_Bluetooth_List == {"blank", "keeps"}

BlueTooth_Counts ==
    Each({"DiscoveredDeviceCnt", "PairedDeviceCnt", "ConnectedDeviceCnt"},
         Silent(fetch_Bluetooth_List))

OfListed == Silent({"refuses", "keeps"})  \* no such row, or a stale one

BlueTooth_Discovered ==
    Each({"Name", "DeviceType", "Paired", "DeviceID"}, OfListed)

BlueTooth_Discovered_Connected ==
    [Connected |-> Silent({"refuses", "blank"})]

BlueTooth_Paired ==
    Each({"Name", "DeviceID", "Connected", "DeviceType"}, OfListed)

BlueTooth_Connected == Each({"Name", "Active"}, OfListed)

BlueTooth_Connected_Type == Each({"DeviceType", "DeviceID"}, OfListed)

(* What a set of GetDeviceInfo found of the device it named: zeros when    *)
(* the manager of Bluetooth failed, and before the first set OK and no     *)
(* value.                                                                  *)
setDeviceInfo == {"blank", "keeps"}

BlueTooth_DeviceInfo ==
    [DeviceID |-> Silent(setDeviceInfo),
     Manufacturer |-> Silent(setDeviceInfo), Profile |-> OfListed]

BlueTooth_DeviceInfo_Signal ==
    Each({"MAC", "SignalLevel", "RSSI"}, Silent(setDeviceInfo))

BlueTooth_GetDeviceInfo ==
    [GetDeviceInfo |-> Silent({"refuses"} \cup setDeviceInfo)]

BlueTooth_Beacons == [LimitBeaconDetection |-> Silent(Blank)]
=============================================================================
