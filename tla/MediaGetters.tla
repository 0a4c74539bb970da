---------------------------- MODULE MediaGetters ----------------------------
(***************************************************************************)
(* The tables of ProfileGetters for the profiles of the video and audio    *)
(* outputs, whose getters ask the device settings library and refuse when  *)
(* it throws, and for MoCA, whose getters ask the RMH library, refuse when *)
(* it answers with an error and never look for changes.                    *)
(***************************************************************************)
EXTENDS ProfileGetters

-----------------------------------------------------------------------------
(* Device.Services.STBService.Components.                                  *)

AudioOutput_State ==
    [Status |-> Changes(Refuses), CancelMute |-> Changes(Refuses),
     Enable |-> Silent(Never),    Name |-> Silent(Refuses)]

AudioOutput_Coding ==
    [StereoMode |-> Changes(Refuses), Encoding |-> Changes(Refuses),
     Format |-> Silent(Refuses), Compression |-> Changes(Refuses),
     Level |-> Changes(Refuses)]

AudioOutput_Loudness ==
    Each({"DB", "MinDB", "MaxDB", "Gain"}, Changes(Refuses))

AudioOutput_Loop ==
    Each({"LoopThru", "OptimalLevel", "DialogEnhancement"}, Changes(Refuses))

(* Without a display an EDID is blank.  The backups of an EDID and of the  *)
(* list of resolutions are cut to 15 or 255 characters.                    *)
DisplayDevice_Edid ==
    [Status     |-> Changes(Refuses),
     EDID       |-> Getter({"refuses", "blank"}, "cut"),
     EDID_BYTES |-> Getter({"refuses", "blank"}, "cut")]

DisplayDevice_Resolution ==
    [SupportedResolutions |-> Getter(Refuses, "cut"),
     PreferredResolution  |-> Changes(Refuses)]

HDMI_State ==
    LET Enable == Changes({"refuses", "blank"})
    IN [Enable |-> Enable, Name |-> Changes(Never),
        Status |-> Reading(Changes({"refuses", "blank"}), Enable)]

SPDIF ==
    [Status |-> Changes(Never), Enable |-> Refused, Alias |-> Refused,
     Name |-> Refused]

SPDIF_Coding ==
    [ForcePCM |-> Changes(Refuses), Passthrough |-> Changes(Refuses),
     AudioDelay |-> Refused]

VideoDecoder ==
    [ContentAspectRatio |-> Changes({"refuses", "blank"}),
     Standby |-> Changes(Refuses), Status |-> Changes(Refuses)]

VideoOutput_Format ==
    [Status |-> Changes(Refuses), AspectRatioBehaviour |-> Changes(Refuses),
     VideoFormat |-> Changes(Never)]

VideoOutput_Display ==
    [DisplayFormat |-> Changes(Refuses), Name |-> Changes(Refuses),
     HDCP |-> Changes(Refuses)]

-----------------------------------------------------------------------------
(* Device.MoCA.Interface.  Without a handle of the library some getters    *)
(* answer OK all the same.  Upstream and MaxNodes are what the getters of  *)
(* Enable and HighestVersion left in their fields.                         *)
NoHandle == Silent({"refuses", "blank"})

FieldOf(g) == [Reading(Silent(Never), g) EXCEPT !.source = "other"]

MoCA_Link ==
    LET Enable == Silent(Blank)
    IN [Enable |-> Enable, Status |-> NoHandle, Alias |-> Silent(Never),
        Name |-> NoHandle, LastChange |-> Silent(Refuses),
        LowerLayers |-> Silent(Never), Upstream |-> FieldOf(Enable)]

MoCA_Rates ==
    Each({"MACAddress", "FirmwareVersion", "MaxBitRate", "MaxIngressBW",
          "MaxEgressBW", "HighestVersion"}, Silent(Refuses))

MoCA_Network ==
    [CurrentVersion |-> Silent(Refuses),
     NetworkCoordinator |-> Silent(Refuses), NodeID |-> Silent(Refuses),
     MaxNodes |-> FieldOf(MoCA_Rates.HighestVersion),
     PreferredNC |-> NoHandle, BackupNC |-> NoHandle]

MoCA_Privacy ==
    [PrivacyEnabledSetting |-> NoHandle, PrivacyEnabled |-> NoHandle,
     FreqCapabilityMask |-> NoHandle,
     FreqCurrentMaskSetting |-> Silent(Refuses),
     FreqCurrentMask |-> Silent(Refuses)]

MoCA_Power ==
    [CurrentOperFreq |-> Silent(Refuses), LastOperFreq |-> Silent(Refuses),
     KeyPassphrase |-> Silent(Never), TxPowerLimit |-> Silent(Refuses),
     PowerCntlPhyTarget |-> Silent(Refuses),
     BeaconPowerLimit |-> Silent(Refuses)]

MoCA_Taboo ==
    [NetworkTabooMask |-> NoHandle, NodeTabooMask |-> NoHandle,
     TxBcastRate |-> Silent(Refuses),
     TxBcastPowerReduction |-> Silent(Refuses),
     QAM256Capable |-> Silent(Refuses),
     PacketAggregationCapability |-> Silent(Refuses)]

(* A network without another node refuses its numbers.                     *)
MoCA_Own ==
    Each({"AssociatedDeviceNumberOfEntries", "MeshTableNumberOfEntries",
          "PrimaryChannelFreq", "SecondaryChannelFreq", "NodePowerState",
          "TurboMode"}, Silent(Refuses))

MoCA_Associated_Rates ==
    Each({"MACAddress", "NodeID", "PreferredNC", "HighestVersion",
          "PHYTxRate", "PHYRxRate"}, Silent(Refuses))

MoCA_Associated_Power ==
    Each({"TxPowerControlReduction", "RxPowerLevel", "TxBcastRate",
          "RxBcastPowerLevel", "TxPackets", "RxPackets"}, Silent(Refuses))

MoCA_Associated_State ==
    Each({"RxErroredAndMissedPackets", "QAM256Capable",
          "PacketAggregationCapability", "RxSNR", "Active"}, Silent(Refuses))

MoCA_Traffic == Each(Traffic, Silent(Refuses))
MoCA_Unicast == Each(Unicast, Silent(Refuses))
MoCA_Multicast == Each(Multicast, Silent(Refuses))

MoCA_QoS ==
    Each({"EgressNumFlows", "IngressNumFlows", "FlowStatsNumberOfEntries"},
         Refused)

MoCA_FlowStats ==
    Each({"FlowID", "PacketDA", "MaxRate", "MaxBurstSize", "LeaseTime",
          "LeaseTimeLeft", "FlowPackets"}, Refused)
=============================================================================
