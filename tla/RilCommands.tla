---------------------------- MODULE RilCommands ----------------------------
(* The tables that drive the radio service of libril: what each method of  *)
(* IRadio and IOemHook does with its arguments before it hands the request *)
(* to the vendor library (ril_service.cpp), which response function the    *)
(* request is bound to (ril_commands.h), which callback that function      *)
(* invokes and which vendor payloads it refuses, and the same for the      *)
(* unsolicited messages (ril_unsol_commands.h).                            *)
(*                                                                         *)
(* A method is a set of scripts: its arguments select one of them. Tables  *)
(* are records whose fields are the names the source uses; RIL_REQUEST_    *)
(* and RIL_UNSOL_ prefixes are dropped. RilDispatch runs the tables.       *)
EXTENDS Naturals, Sequences, TLC

(***************************************************************************)
(* Steps of a script. A step names the memory it takes, what the method    *)
(* frees when the step fails, and the errors it may answer with.           *)
(***************************************************************************)

(* calloc: fails with NO_MEMORY. *)
Alloc(arg, undo) ==
  [takes |-> {arg}, empty |-> FALSE, undo |-> undo, errors |-> {"NO_MEMORY"}]

(* copyHidlStringToRil: an empty string takes no memory unless allowEmpty; *)
(* no memory and a length that is not the string's are answered by the     *)
(* helper itself.                                                          *)
CopyString(allowEmpty, arg, undo) ==
  [takes |-> {arg}, empty |-> ~allowEmpty, undo |-> undo,
   errors |-> {"NO_MEMORY", "INTERNAL_ERR"}]
Copy(arg, undo) == CopyString(FALSE, arg, undo)
CopyAll(arg, undo) == CopyString(TRUE, arg, undo)

(* new[]: it does not return without memory. *)
New(arg) == [takes |-> {arg}, empty |-> FALSE, undo |-> {}, errors |-> {}]

(* A test of the arguments. *)
Check(error, undo) ==
  [takes |-> {}, empty |-> FALSE, undo |-> undo, errors |-> {error}]

(* A script: the request it is listed under, its steps, what is freed once *)
(* onRequest has returned, whether the method looks at the result of       *)
(* addRequestToList, whether the request reaches the vendor at all, and    *)
(* whether success is reported whatever the vendor does.                   *)
Script(request, steps, frees) ==
  [request |-> request, steps |-> steps, frees |-> frees,
   checked |-> TRUE, sent |-> TRUE, fake |-> FALSE]

(***************************************************************************)
(* The dispatch helpers.                                                   *)
(***************************************************************************)
Args == <<"a1", "a2", "a3", "a4", "a5", "a6", "a7", "a8", "a9", "a10",
          "a11", "a12", "a13", "a14", "a15">>
FirstArgs(n) == {Args[i] : i \in 1..n}

Void(request) == {Script(request, <<>>, {})}

String(request) == {Script(request, <<Copy("a1", {})>>, {"a1"})}

(* The array, then its strings; a string that fails frees those before it. *)
StringsOf(request, n, allowEmpty) ==
  Script(request,
         <<Alloc("array", {})>>
           \o [i \in 1..n |->
                 CopyString(allowEmpty, Args[i], {"array"} \cup FirstArgs(i - 1))],
         {"array"} \cup FirstArgs(n))

Strings(request, n) == {StringsOf(request, n, FALSE)}
StringsAll(request, n) == {StringsOf(request, n, TRUE)}

(* dispatchStrings reports success itself once onRequest has returned. *)
StringsFaked(request, n) ==
  {[StringsOf(request, n, TRUE) EXCEPT !.fake = TRUE]}

Ints(request) == {Script(request, <<Alloc("ints", {})>>, {"ints"})}

CallForward(request) == {Script(request, <<Copy("number", {})>>, {"number"})}

IccApdu(request) == {Script(request, <<Copy("data", {})>>, {"data"})}

Raw(request) == {Script(request, <<>>, {})}

(* The request is listed only to be refused. *)
Refused(request, error) ==
  {[Script(request, <<Check(error, {})>>, {}) EXCEPT !.sent = FALSE]}

(* The same, by a method that does not look whether the request was listed. *)
RefusedUnchecked(request, error) ==
  {[s EXCEPT !.checked = FALSE] : s \in Refused(request, error)}

(***************************************************************************)
(* The methods, in the order of the source.                                *)
(***************************************************************************)
CardMethods ==
  [getIccCardStatus |-> Void("GET_SIM_STATUS"),
   supplyIccPinForApp |-> StringsAll("ENTER_SIM_PIN", 2),
   supplyIccPukForApp |-> StringsAll("ENTER_SIM_PUK", 3),
   supplyIccPin2ForApp |-> StringsAll("ENTER_SIM_PIN2", 2),
   supplyIccPuk2ForApp |-> StringsAll("ENTER_SIM_PUK2", 3),
   changeIccPinForApp |-> StringsAll("CHANGE_SIM_PIN", 3),
   changeIccPin2ForApp |-> StringsAll("CHANGE_SIM_PIN2", 3),
   supplyNetworkDepersonalization |->
     StringsAll("ENTER_NETWORK_DEPERSONALIZATION", 1),
   getCurrentCalls |-> Void("GET_CURRENT_CALLS"),
   dial |-> {Script("DIAL", <<Copy("address", {}), Copy("uusData", {"address"})>>,
                    {"address", "uusData"})},
   getImsiForApp |-> Strings("GET_IMSI", 1)]

CallMethods ==
  [hangup |-> Ints("HANGUP"),
   hangupWaitingOrBackground |-> Void("HANGUP_WAITING_OR_BACKGROUND"),
   hangupForegroundResumeBackground |-> Void("HANGUP_FOREGROUND_RESUME_BACKGROUND"),
   switchWaitingOrHoldingAndActive |-> Void("SWITCH_WAITING_OR_HOLDING_AND_ACTIVE"),
   conference |-> Void("CONFERENCE"),
   rejectCall |-> Void("UDUB"),
   getLastCallFailCause |-> Void("LAST_CALL_FAIL_CAUSE"),
   getSignalStrength |-> Void("SIGNAL_STRENGTH"),
   getVoiceRegistrationState |-> Void("VOICE_REGISTRATION_STATE"),
   getDataRegistrationState |-> Void("DATA_REGISTRATION_STATE"),
   getOperator |-> Void("OPERATOR"),
   setRadioPower |-> Ints("RADIO_POWER"),
   sendDtmf |-> String("DTMF"),
   sendSms |-> Strings("SEND_SMS", 2),
   sendSMSExpectMore |-> Strings("SEND_SMS_EXPECT_MORE", 2)]

(* The number of strings depends on the version of the vendor library; a   *)
(* profile with an unknown MVNO type is refused, and so is any profile     *)
(* when the library is too old.                                            *)
DataCallMethods(version) ==
  [setupDataCall |->
     IF version >= 4 /\ version <= 14 THEN StringsAll("SETUP_DATA_CALL", 7)
     ELSE IF version >= 15
     THEN StringsAll("SETUP_DATA_CALL", 15)
            \cup Refused("SETUP_DATA_CALL", "INVALID_ARGUMENTS")
     ELSE Refused("SETUP_DATA_CALL", "REQUEST_NOT_SUPPORTED")]

SimIoMethods ==
  [iccIOForApp |->
     {Script("SIM_IO",
             <<Copy("path", {}), Copy("data", {"path"}),
               Copy("pin2", {"path", "data"}),
               Copy("aidPtr", {"path", "data", "pin2"})>>,
             {"path", "data", "pin2", "aidPtr"})},
   sendUssd |-> String("SEND_USSD"),
   cancelPendingUssd |-> Void("CANCEL_USSD"),
   getClir |-> Void("GET_CLIR"),
   setClir |-> Ints("SET_CLIR"),
   getCallForwardStatus |-> CallForward("QUERY_CALL_FORWARD_STATUS"),
   setCallForward |-> CallForward("SET_CALL_FORWARD"),
   getCallWaiting |-> Ints("QUERY_CALL_WAITING"),
   setCallWaiting |-> Ints("SET_CALL_WAITING"),
   acknowledgeLastIncomingGsmSms |-> Ints("SMS_ACKNOWLEDGE"),
   acceptCall |-> Void("ANSWER"),
   deactivateDataCall |-> Strings("DEACTIVATE_DATA_CALL", 2),
   getFacilityLockForApp |-> StringsAll("QUERY_FACILITY_LOCK", 4)]

(* startNetworkScan tests the number of networks, of bands and channels of *)
(* each, and the kind of each.                                             *)
NetworkMethods ==
  [setFacilityLockForApp |-> StringsAll("SET_FACILITY_LOCK", 5),
   setBarringPassword |-> StringsAll("CHANGE_BARRING_PASSWORD", 3),
   getNetworkSelectionMode |-> Void("QUERY_NETWORK_SELECTION_MODE"),
   setNetworkSelectionModeAutomatic |->
     StringsAll("SET_NETWORK_SELECTION_AUTOMATIC", 0),
   setNetworkSelectionModeManual |->
     StringsFaked("SET_NETWORK_SELECTION_MANUAL", 1),
   getAvailableNetworks |-> Void("QUERY_AVAILABLE_NETWORKS"),
   startNetworkScan |->
     {Script("START_NETWORK_SCAN",
             <<Check("INVALID_ARGUMENTS", {}), Check("INVALID_ARGUMENTS", {}),
               Check("INVALID_ARGUMENTS", {})>>, {})},
   stopNetworkScan |-> Void("STOP_NETWORK_SCAN")]

DtmfAndSimMethods ==
  [startDtmf |-> String("DTMF_START"),
   stopDtmf |-> Void("DTMF_STOP"),
   getBasebandVersion |-> Void("BASEBAND_VERSION"),
   separateConnection |-> Ints("SEPARATE_CONNECTION"),
   setMute |-> Ints("SET_MUTE"),
   getMute |-> Void("GET_MUTE"),
   getClip |-> Void("QUERY_CLIP"),
   getDataCallList |-> Void("DATA_CALL_LIST"),
   setSuppServiceNotifications |-> Ints("SET_SUPP_SVC_NOTIFICATION"),
   writeSmsToSim |->
     {Script("WRITE_SMS_TO_SIM", <<Copy("pdu", {}), Copy("smsc", {"pdu"})>>,
             {"smsc", "pdu"})},
   deleteSmsOnSim |-> Ints("DELETE_SMS_ON_SIM"),
   setBandMode |-> Ints("SET_BAND_MODE"),
   getAvailableBandModes |-> Void("QUERY_AVAILABLE_BAND_MODE"),
   sendEnvelope |-> String("STK_SEND_ENVELOPE_COMMAND"),
   sendTerminalResponseToSim |-> String("STK_SEND_TERMINAL_RESPONSE")]

RadioTypeMethods ==
  [handleStkCallSetupRequestFromSim |->
     Ints("STK_HANDLE_CALL_SETUP_REQUESTED_FROM_SIM"),
   explicitCallTransfer |-> Void("EXPLICIT_CALL_TRANSFER"),
   setPreferredNetworkType |-> Ints("SET_PREFERRED_NETWORK_TYPE"),
   getPreferredNetworkType |-> Void("GET_PREFERRED_NETWORK_TYPE"),
   getNeighboringCids |-> Void("GET_NEIGHBORING_CELL_IDS"),
   setLocationUpdates |-> Ints("SET_LOCATION_UPDATES"),
   setCdmaSubscriptionSource |-> Ints("CDMA_SET_SUBSCRIPTION_SOURCE"),
   setCdmaRoamingPreference |-> Ints("CDMA_SET_ROAMING_PREFERENCE"),
   getCdmaRoamingPreference |-> Void("CDMA_QUERY_ROAMING_PREFERENCE"),
   setTTYMode |-> Ints("SET_TTY_MODE"),
   getTTYMode |-> Void("QUERY_TTY_MODE"),
   setPreferredVoicePrivacy |-> Ints("CDMA_SET_PREFERRED_VOICE_PRIVACY_MODE"),
   getPreferredVoicePrivacy |-> Void("CDMA_QUERY_PREFERRED_VOICE_PRIVACY_MODE"),
   sendCDMAFeatureCode |-> String("CDMA_FLASH"),
   sendBurstDtmf |-> Strings("CDMA_BURST_DTMF", 3)]

(* The arguments are copied into structures on the stack. *)
CdmaSmsMethods ==
  [sendCdmaSms |-> {Script("CDMA_SEND_SMS", <<>>, {})},
   acknowledgeLastIncomingCdmaSms |-> {Script("CDMA_SMS_ACKNOWLEDGE", <<>>, {})},
   getGsmBroadcastConfig |-> Void("GSM_GET_BROADCAST_SMS_CONFIG"),
   setGsmBroadcastConfig |-> {Script("GSM_SET_BROADCAST_SMS_CONFIG", <<>>, {})},
   setGsmBroadcastActivation |-> Ints("GSM_SMS_BROADCAST_ACTIVATION"),
   getCdmaBroadcastConfig |-> Void("CDMA_GET_BROADCAST_SMS_CONFIG"),
   setCdmaBroadcastConfig |-> {Script("CDMA_SET_BROADCAST_SMS_CONFIG", <<>>, {})}]

DeviceMethods ==
  [setCdmaBroadcastActivation |-> Ints("CDMA_SMS_BROADCAST_ACTIVATION"),
   getCDMASubscription |-> Void("CDMA_SUBSCRIPTION"),
   writeSmsToRuim |-> {Script("CDMA_WRITE_SMS_TO_RUIM", <<>>, {})},
   deleteSmsOnRuim |-> Ints("CDMA_DELETE_SMS_ON_RUIM"),
   getDeviceIdentity |-> Void("DEVICE_IDENTITY"),
   exitEmergencyCallbackMode |-> Void("EXIT_EMERGENCY_CALLBACK_MODE"),
   getSmscAddress |-> Void("GET_SMSC_ADDRESS"),
   setSmscAddress |-> String("SET_SMSC_ADDRESS"),
   reportSmsMemoryStatus |-> Ints("REPORT_SMS_MEMORY_STATUS"),
   reportStkServiceIsRunning |-> Void("REPORT_STK_SERVICE_IS_RUNNING"),
   getCdmaSubscriptionSource |-> Void("CDMA_GET_SUBSCRIPTION_SOURCE"),
   requestIsimAuthentication |-> String("ISIM_AUTHENTICATION"),
   acknowledgeIncomingGsmSmsWithPdu |->
     Strings("ACKNOWLEDGE_INCOMING_GSM_SMS_WITH_PDU", 2),
   sendEnvelopeWithStatus |-> String("STK_SEND_ENVELOPE_WITH_STATUS"),
   getVoiceRadioTechnology |-> Void("VOICE_RADIO_TECH"),
   getCellInfoList |-> Void("GET_CELL_INFO_LIST"),
   setCellInfoListRate |-> Ints("SET_UNSOL_CELL_INFO_LIST_RATE")]

InitialAttachMethods(version) ==
  [setInitialAttachApn |->
     IF version <= 14
     THEN {Script("SET_INITIAL_ATTACH_APN",
             <<CopyAll("apn", {}), Copy("protocol", {"apn"}),
               Copy("username", {"apn", "protocol"}),
               Copy("password", {"apn", "protocol", "username"})>>,
             {"apn", "protocol", "username", "password"})}
     ELSE LET five == {"apn", "protocol", "roamingProtocol", "username", "password"}
          IN {Script("SET_INITIAL_ATTACH_APN",
                <<CopyAll("apn", {}), Copy("protocol", {"apn"}),
                  Copy("roamingProtocol", {"apn", "protocol"}),
                  Copy("username", {"apn", "protocol", "roamingProtocol"}),
                  Copy("password", five \ {"password"}),
                  Check("INVALID_ARGUMENTS", five),
                  Copy("mvnoMatchData", five)>>,
                five \cup {"mvnoMatchData"})}]

(* An IMS message is a GSM one, a CDMA one or of an unknown technology. *)
ImsMethods ==
  [getImsRegistrationState |-> Void("IMS_REGISTRATION_STATE"),
   sendImsSms |->
     {Script("IMS_SEND_SMS",
             <<Check("INVALID_ARGUMENTS", {}), Alloc("pStrings", {}),
               Copy("smscPdu", {"pStrings"}),
               Copy("pdu", {"pStrings", "smscPdu"})>>,
             {"pStrings", "smscPdu", "pdu"}),
      Script("IMS_SEND_SMS", <<Check("INVALID_ARGUMENTS", {})>>, {})}
     \cup Refused("IMS_SEND_SMS", "INVALID_ARGUMENTS"),
   iccTransmitApduBasicChannel |-> IccApdu("SIM_TRANSMIT_APDU_BASIC")]

OpenChannelMethods(version) ==
  [iccOpenLogicalChannel |->
     IF version < 15 THEN String("SIM_OPEN_CHANNEL")
     ELSE {Script("SIM_OPEN_CHANNEL", <<Copy("aidPtr", {})>>, {"aidPtr"})}]

NvAndAuthMethods ==
  [iccCloseLogicalChannel |-> Ints("SIM_CLOSE_CHANNEL"),
   iccTransmitApduLogicalChannel |-> IccApdu("SIM_TRANSMIT_APDU_CHANNEL"),
   nvReadItem |-> {Script("NV_READ_ITEM", <<>>, {})},
   nvWriteItem |-> {Script("NV_WRITE_ITEM", <<Copy("value", {})>>, {"value"})},
   nvWriteCdmaPrl |-> Raw("NV_WRITE_CDMA_PRL"),
   nvResetConfig |-> Ints("NV_RESET_CONFIG"),
   setUiccSubscription |-> {Script("SET_UICC_SUBSCRIPTION", <<>>, {})},
   setDataAllowed |-> Ints("ALLOW_DATA"),
   getHardwareConfig |-> Void("GET_HARDWARE_CONFIG"),
   requestIccSimAuthentication |->
     {Script("SIM_AUTHENTICATION",
             <<Copy("authData", {}), Copy("aid", {"authData"})>>,
             {"authData", "aid"})}]

(* Both shapes of setDataProfile, for a list of one profile: the array of  *)
(* profiles, the array of pointers to them, then the strings of each; any  *)
(* failure frees what freeSetDataProfileData names.                        *)
ProfileScript(fields, optional, tests) ==
  LET all == {"dataProfiles", "dataProfilePtrs"} \cup {fields[i] : i \in DOMAIN fields}
      copied(f) == CopyString(f \notin optional, f, all)
      tested(t) == [t EXCEPT !.undo = all]
  IN {Script("SET_DATA_PROFILE",
             <<Alloc("dataProfiles", {}), Alloc("dataProfilePtrs", {"dataProfiles"})>>
               \o [i \in DOMAIN fields |-> copied(fields[i])]
               \o [i \in DOMAIN tests |-> tested(tests[i])],
             all)}

ProfileMethodsV14 ==
  [setDataProfile |->
     ProfileScript(<<"apn", "protocol", "user", "password">>, {}, <<>>)]

ProfileMethodsV15 ==
  [setDataProfile |->
     ProfileScript(<<"apn", "protocol", "roamingProtocol", "user", "password",
                     "mvnoMatchData">>,
                   {"protocol"}, <<Check("INVALID_ARGUMENTS", {})>>)]

CapabilityMethods ==
  [requestShutdown |-> Void("SHUTDOWN"),
   getRadioCapability |-> Void("GET_RADIO_CAPABILITY"),
   setRadioCapability |-> {Script("SET_RADIO_CAPABILITY", <<>>, {})},
   startLceService |-> Ints("START_LCE"),
   stopLceService |-> Void("STOP_LCE"),
   pullLceData |-> Void("PULL_LCEDATA"),
   getModemActivityInfo |-> Void("GET_ACTIVITY_INFO"),
   setAllowedCarriers |->
     {Script("SET_CARRIER_RESTRICTIONS",
             <<Alloc("allowedCarriers", {}),
               Alloc("excludedCarriers", {"allowedCarriers"})>>,
             {"allowedCarriers", "excludedCarriers"})},
   getAllowedCarriers |-> Void("GET_CARRIER_RESTRICTIONS")]

DeviceStateMethods(version) ==
  [sendDeviceState |->
     IF version < 15
     THEN Ints("SCREEN_STATE")
            \cup RefusedUnchecked("SEND_DEVICE_STATE", "REQUEST_NOT_SUPPORTED")
     ELSE Ints("SEND_DEVICE_STATE"),
   setIndicationFilter |->
     IF version < 15
     THEN RefusedUnchecked("SET_UNSOLICITED_RESPONSE_FILTER", "REQUEST_NOT_SUPPORTED")
     ELSE Ints("SET_UNSOLICITED_RESPONSE_FILTER")]

(* setCarrierInfoForImsiEncryption deletes the key only: its three strings *)
(* stay allocated when the request was sent.                               *)
KeepaliveMethods ==
  [setSimCardPower |-> Ints("SET_SIM_CARD_POWER"),
   setSimCardPower_1_1 |-> Ints("SET_SIM_CARD_POWER"),
   setCarrierInfoForImsiEncryption |->
     {Script("SET_CARRIER_INFO_IMSI_ENCRYPTION",
             <<Copy("mnc", {}), Copy("mcc", {"mnc"}),
               Copy("keyIdentifier", {"mnc", "mcc"}), New("carrierKey")>>,
             {"carrierKey"})},
   startKeepalive |->
     {Script("START_KEEPALIVE", <<Check("INVALID_ARGUMENTS", {})>>, {})},
   stopKeepalive |-> {Script("STOP_KEEPALIVE", <<>>, {})},
   sendRequestRaw |-> Raw("OEM_HOOK_RAW"),
   sendRequestStrings |-> Strings("OEM_HOOK_STRINGS", 2)]

MethodsOf(version) ==
  CardMethods @@ CallMethods @@ DataCallMethods(version) @@ SimIoMethods
    @@ NetworkMethods @@ DtmfAndSimMethods @@ RadioTypeMethods @@ CdmaSmsMethods
    @@ DeviceMethods @@ InitialAttachMethods(version) @@ ImsMethods
    @@ OpenChannelMethods(version) @@ NvAndAuthMethods
    @@ (IF version <= 14 THEN ProfileMethodsV14 ELSE ProfileMethodsV15)
    @@ CapabilityMethods @@ DeviceStateMethods(version) @@ KeepaliveMethods

(***************************************************************************)
(* ril_commands.h: the response function of each request, without its      *)
(* "Response" suffix; "none" where the table has NULL.                     *)
(***************************************************************************)
Commands ==
  [GET_SIM_STATUS |-> "getIccCardStatus", ENTER_SIM_PIN |-> "supplyIccPinForApp",
   ENTER_SIM_PUK |-> "supplyIccPukForApp", ENTER_SIM_PIN2 |-> "supplyIccPin2ForApp",
   ENTER_SIM_PUK2 |-> "supplyIccPuk2ForApp", CHANGE_SIM_PIN |-> "changeIccPinForApp",
   CHANGE_SIM_PIN2 |-> "changeIccPin2ForApp",
   ENTER_NETWORK_DEPERSONALIZATION |-> "supplyNetworkDepersonalization",
   GET_CURRENT_CALLS |-> "getCurrentCalls", DIAL |-> "dial", GET_IMSI |-> "getIMSIForApp",
   HANGUP |-> "hangupConnection",
   HANGUP_WAITING_OR_BACKGROUND |-> "hangupWaitingOrBackground",
   HANGUP_FOREGROUND_RESUME_BACKGROUND |-> "hangupForegroundResumeBackground",
   SWITCH_WAITING_OR_HOLDING_AND_ACTIVE |-> "switchWaitingOrHoldingAndActive",
   CONFERENCE |-> "conference", UDUB |-> "rejectCall",
   LAST_CALL_FAIL_CAUSE |-> "getLastCallFailCause",
   SIGNAL_STRENGTH |-> "getSignalStrength",
   VOICE_REGISTRATION_STATE |-> "getVoiceRegistrationState",
   DATA_REGISTRATION_STATE |-> "getDataRegistrationState", OPERATOR |-> "getOperator",
   RADIO_POWER |-> "setRadioPower", DTMF |-> "sendDtmf", SEND_SMS |-> "sendSms",
   SEND_SMS_EXPECT_MORE |-> "sendSMSExpectMore", SETUP_DATA_CALL |-> "setupDataCall",
   SIM_IO |-> "iccIOForApp", SEND_USSD |-> "sendUssd", CANCEL_USSD |-> "cancelPendingUssd",
   GET_CLIR |-> "getClir", SET_CLIR |-> "setClir",
   QUERY_CALL_FORWARD_STATUS |-> "getCallForwardStatus",
   SET_CALL_FORWARD |-> "setCallForward", QUERY_CALL_WAITING |-> "getCallWaiting",
   SET_CALL_WAITING |-> "setCallWaiting",
   SMS_ACKNOWLEDGE |-> "acknowledgeLastIncomingGsmSms", GET_IMEI |-> "none",
   GET_IMEISV |-> "none", ANSWER |-> "acceptCall",
   DEACTIVATE_DATA_CALL |-> "deactivateDataCall",
   QUERY_FACILITY_LOCK |-> "getFacilityLockForApp",
   SET_FACILITY_LOCK |-> "setFacilityLockForApp",
   CHANGE_BARRING_PASSWORD |-> "setBarringPassword",
   QUERY_NETWORK_SELECTION_MODE |-> "getNetworkSelectionMode",
   SET_NETWORK_SELECTION_AUTOMATIC |-> "setNetworkSelectionModeAutomatic",
   SET_NETWORK_SELECTION_MANUAL |-> "setNetworkSelectionModeManual",
   QUERY_AVAILABLE_NETWORKS |-> "getAvailableNetworks", DTMF_START |-> "startDtmf",
   DTMF_STOP |-> "stopDtmf", BASEBAND_VERSION |-> "getBasebandVersion",
   SEPARATE_CONNECTION |-> "separateConnection", SET_MUTE |-> "setMute",
   GET_MUTE |-> "getMute", QUERY_CLIP |-> "getClip", LAST_DATA_CALL_FAIL_CAUSE |-> "none",
   DATA_CALL_LIST |-> "getDataCallList", RESET_RADIO |-> "none",
   OEM_HOOK_RAW |-> "sendRequestRaw", OEM_HOOK_STRINGS |-> "sendRequestStrings",
   SCREEN_STATE |-> "sendDeviceState",
   SET_SUPP_SVC_NOTIFICATION |-> "setSuppServiceNotifications",
   WRITE_SMS_TO_SIM |-> "writeSmsToSim", DELETE_SMS_ON_SIM |-> "deleteSmsOnSim",
   SET_BAND_MODE |-> "setBandMode", QUERY_AVAILABLE_BAND_MODE |-> "getAvailableBandModes",
   STK_GET_PROFILE |-> "none", STK_SET_PROFILE |-> "none",
   STK_SEND_ENVELOPE_COMMAND |-> "sendEnvelope",
   STK_SEND_TERMINAL_RESPONSE |-> "sendTerminalResponseToSim",
   STK_HANDLE_CALL_SETUP_REQUESTED_FROM_SIM |-> "handleStkCallSetupRequestFromSim",
   EXPLICIT_CALL_TRANSFER |-> "explicitCallTransfer",
   SET_PREFERRED_NETWORK_TYPE |-> "setPreferredNetworkType",
   GET_PREFERRED_NETWORK_TYPE |-> "getPreferredNetworkType",
   GET_NEIGHBORING_CELL_IDS |-> "getNeighboringCids",
   SET_LOCATION_UPDATES |-> "setLocationUpdates",
   CDMA_SET_SUBSCRIPTION_SOURCE |-> "setCdmaSubscriptionSource",
   CDMA_SET_ROAMING_PREFERENCE |-> "setCdmaRoamingPreference",
   CDMA_QUERY_ROAMING_PREFERENCE |-> "getCdmaRoamingPreference",
   SET_TTY_MODE |-> "setTTYMode", QUERY_TTY_MODE |-> "getTTYMode",
   CDMA_SET_PREFERRED_VOICE_PRIVACY_MODE |-> "setPreferredVoicePrivacy",
   CDMA_QUERY_PREFERRED_VOICE_PRIVACY_MODE |-> "getPreferredVoicePrivacy",
   CDMA_FLASH |-> "sendCDMAFeatureCode", CDMA_BURST_DTMF |-> "sendBurstDtmf",
   CDMA_VALIDATE_AND_WRITE_AKEY |-> "none", CDMA_SEND_SMS |-> "sendCdmaSms",
   CDMA_SMS_ACKNOWLEDGE |-> "acknowledgeLastIncomingCdmaSms",
   GSM_GET_BROADCAST_SMS_CONFIG |-> "getGsmBroadcastConfig",
   GSM_SET_BROADCAST_SMS_CONFIG |-> "setGsmBroadcastConfig",
   GSM_SMS_BROADCAST_ACTIVATION |-> "setGsmBroadcastActivation",
   CDMA_GET_BROADCAST_SMS_CONFIG |-> "getCdmaBroadcastConfig",
   CDMA_SET_BROADCAST_SMS_CONFIG |-> "setCdmaBroadcastConfig",
   CDMA_SMS_BROADCAST_ACTIVATION |-> "setCdmaBroadcastActivation",
   CDMA_SUBSCRIPTION |-> "getCDMASubscription",
   CDMA_WRITE_SMS_TO_RUIM |-> "writeSmsToRuim",
   CDMA_DELETE_SMS_ON_RUIM |-> "deleteSmsOnRuim", DEVICE_IDENTITY |-> "getDeviceIdentity",
   EXIT_EMERGENCY_CALLBACK_MODE |-> "exitEmergencyCallbackMode",
   GET_SMSC_ADDRESS |-> "getSmscAddress", SET_SMSC_ADDRESS |-> "setSmscAddress",
   REPORT_SMS_MEMORY_STATUS |-> "reportSmsMemoryStatus",
   REPORT_STK_SERVICE_IS_RUNNING |-> "reportStkServiceIsRunning",
   CDMA_GET_SUBSCRIPTION_SOURCE |-> "getCdmaSubscriptionSource",
   ISIM_AUTHENTICATION |-> "requestIsimAuthentication",
   ACKNOWLEDGE_INCOMING_GSM_SMS_WITH_PDU |-> "acknowledgeIncomingGsmSmsWithPdu",
   STK_SEND_ENVELOPE_WITH_STATUS |-> "sendEnvelopeWithStatus",
   VOICE_RADIO_TECH |-> "getVoiceRadioTechnology",
   GET_CELL_INFO_LIST |-> "getCellInfoList",
   SET_UNSOL_CELL_INFO_LIST_RATE |-> "setCellInfoListRate",
   SET_INITIAL_ATTACH_APN |-> "setInitialAttachApn",
   IMS_REGISTRATION_STATE |-> "getImsRegistrationState", IMS_SEND_SMS |-> "sendImsSms",
   SIM_TRANSMIT_APDU_BASIC |-> "iccTransmitApduBasicChannel",
   SIM_OPEN_CHANNEL |-> "iccOpenLogicalChannel",
   SIM_CLOSE_CHANNEL |-> "iccCloseLogicalChannel",
   SIM_TRANSMIT_APDU_CHANNEL |-> "iccTransmitApduLogicalChannel",
   NV_READ_ITEM |-> "nvReadItem", NV_WRITE_ITEM |-> "nvWriteItem",
   NV_WRITE_CDMA_PRL |-> "nvWriteCdmaPrl", NV_RESET_CONFIG |-> "nvResetConfig",
   SET_UICC_SUBSCRIPTION |-> "setUiccSubscription", ALLOW_DATA |-> "setDataAllowed",
   GET_HARDWARE_CONFIG |-> "getHardwareConfig",
   SIM_AUTHENTICATION |-> "requestIccSimAuthentication", GET_DC_RT_INFO |-> "none",
   SET_DC_RT_INFO_RATE |-> "none", SET_DATA_PROFILE |-> "setDataProfile",
   SHUTDOWN |-> "requestShutdown", GET_RADIO_CAPABILITY |-> "getRadioCapability",
   SET_RADIO_CAPABILITY |-> "setRadioCapability", START_LCE |-> "startLceService",
   STOP_LCE |-> "stopLceService", PULL_LCEDATA |-> "pullLceData",
   GET_ACTIVITY_INFO |-> "getModemActivityInfo",
   SET_CARRIER_RESTRICTIONS |-> "setAllowedCarriers",
   GET_CARRIER_RESTRICTIONS |-> "getAllowedCarriers",
   SEND_DEVICE_STATE |-> "sendDeviceState",
   SET_UNSOLICITED_RESPONSE_FILTER |-> "setIndicationFilter",
   SET_SIM_CARD_POWER |-> "setSimCardPower",
   SET_CARRIER_INFO_IMSI_ENCRYPTION |-> "setCarrierInfoForImsiEncryption",
   START_NETWORK_SCAN |-> "startNetworkScan", STOP_NETWORK_SCAN |-> "stopNetworkScan",
   START_KEEPALIVE |-> "startKeepalive", STOP_KEEPALIVE |-> "stopKeepalive"]

(***************************************************************************)
(* The response functions, without their "Response" suffix. A payload is   *)
(* "absent" (NULL, no length), "phantom" (NULL with a length), "misfit"    *)
(* (data of a length the function does not expect) or "fits". Each entry   *)
(* gives the callback a 1.0 and a 1.1 client is called on ("none": the     *)
(* answer is dropped), whether the OEM hook client is called instead, and  *)
(* the payloads that are answered as INVALID_RESPONSE.                     *)
(***************************************************************************)
Answer(callback, rejects) ==
  [v1_0 |-> callback, v1_1 |-> callback, oem |-> FALSE, rejects |-> rejects]

Plain(callback) == Answer(callback, {})
Text(callback) == Answer(callback, {})
Struct(callback) == Answer(callback, {"absent", "phantom", "misfit"})
Number(callback) == Struct(callback)
NumberOrNone(callback) == Answer(callback, {"phantom", "misfit"})
List(callback) == Answer(callback, {"phantom", "misfit"})
Lenient(callback) == Answer(callback, {"misfit"})

Only11(answer) == [answer EXCEPT !.v1_0 = "none"]
OemHook(answer) == [answer EXCEPT !.oem = TRUE]

PinAnswers ==
  [getIccCardStatus |-> Struct("getIccCardStatus"),
   supplyIccPinForApp |-> NumberOrNone("supplyIccPinForApp"),
   supplyIccPukForApp |-> NumberOrNone("supplyIccPukForApp"),
   supplyIccPin2ForApp |-> NumberOrNone("supplyIccPin2ForApp"),
   supplyIccPuk2ForApp |-> NumberOrNone("supplyIccPuk2ForApp")]

ChangePinAnswers ==
  [changeIccPinForApp |-> NumberOrNone("changeIccPinForApp"),
   changeIccPin2ForApp |-> NumberOrNone("changeIccPin2ForApp"),
   supplyNetworkDepersonalization |-> NumberOrNone("supplyNetworkDepersonalization"),
   getCurrentCalls |-> List("getCurrentCalls"),
   dial |-> Plain("dial")]

CallAnswers ==
  [getIMSIForApp |-> Text("getIMSIForApp"),
   hangupConnection |-> Plain("hangupConnection"),
   hangupWaitingOrBackground |-> Plain("hangupWaitingOrBackground"),
   hangupForegroundResumeBackground |-> Plain("hangupWaitingOrBackground"),
   switchWaitingOrHoldingAndActive |-> Plain("switchWaitingOrHoldingAndActive"),
   conference |-> Plain("conference"),
   rejectCall |-> Plain("rejectCall")]

SignalAnswers ==
  [getLastCallFailCause |-> Struct("getLastCallFailCause"),
   getSignalStrength |-> Struct("getSignalStrength")]

VoiceRegistrationAnswers ==
  [getVoiceRegistrationState |-> Struct("getVoiceRegistrationState")]

RegistrationAnswers ==
  [getDataRegistrationState |-> Struct("getDataRegistrationState"),
   getOperator |-> Struct("getOperator"),
   setRadioPower |-> Plain("setRadioPower"),
   sendDtmf |-> Plain("sendDtmf")]

SmsAnswers ==
  [sendSms |-> Struct("sendSms"),
   sendSMSExpectMore |-> Struct("sendSMSExpectMore"),
   setupDataCall |-> Lenient("setupDataCall"),
   iccIOForApp |-> Struct("iccIOForApp"),
   sendUssd |-> Plain("sendUssd")]

UssdAnswers ==
  [cancelPendingUssd |-> Plain("cancelPendingUssd"),
   getClir |-> Struct("getClir"),
   setClir |-> Plain("setClir"),
   getCallForwardStatus |-> List("getCallForwardStatus"),
   setCallForward |-> Plain("setCallForward")]

CallWaitingAnswers ==
  [getCallWaiting |-> Struct("getCallWaiting"),
   setCallWaiting |-> Plain("setCallWaiting"),
   acknowledgeLastIncomingGsmSms |-> Plain("acknowledgeLastIncomingGsmSms"),
   acceptCall |-> Plain("acceptCall"),
   deactivateDataCall |-> Plain("deactivateDataCall"),
   getFacilityLockForApp |-> Number("getFacilityLockForApp")]

FacilityAnswers ==
  [setFacilityLockForApp |-> NumberOrNone("setFacilityLockForApp"),
   setBarringPassword |-> Plain("setBarringPassword"),
   getNetworkSelectionMode |-> Number("getNetworkSelectionMode"),
   setNetworkSelectionModeAutomatic |-> Plain("setNetworkSelectionModeAutomatic"),
   setNetworkSelectionModeManual |-> Plain("setNetworkSelectionModeManual")]

NetworkAnswers ==
  [getAvailableNetworks |-> List("getAvailableNetworks"),
   startDtmf |-> Plain("startDtmf"),
   stopDtmf |-> Plain("stopDtmf"),
   getBasebandVersion |-> Text("getBasebandVersion"),
   separateConnection |-> Plain("separateConnection")]

MuteAnswers ==
  [setMute |-> Plain("setMute"),
   getMute |-> Number("getMute"),
   getClip |-> Number("getClip"),
   getDataCallList |-> List("getDataCallList"),
   setSuppServiceNotifications |-> Plain("setSuppServiceNotifications"),
   deleteSmsOnSim |-> Plain("deleteSmsOnSim")]

StkAnswers ==
  [setBandMode |-> Plain("setBandMode"),
   writeSmsToSim |-> Number("writeSmsToSim"),
   getAvailableBandModes |-> List("getAvailableBandModes"),
   sendEnvelope |-> Text("sendEnvelope"),
   sendTerminalResponseToSim |-> Plain("sendTerminalResponseToSim"),
   handleStkCallSetupRequestFromSim |-> Plain("handleStkCallSetupRequestFromSim")]

NetworkTypeAnswers ==
  [explicitCallTransfer |-> Plain("explicitCallTransfer"),
   setPreferredNetworkType |-> Plain("setPreferredNetworkType"),
   getPreferredNetworkType |-> Number("getPreferredNetworkType"),
   getNeighboringCids |-> List("getNeighboringCids"),
   setLocationUpdates |-> Plain("setLocationUpdates"),
   setCdmaSubscriptionSource |-> Plain("setCdmaSubscriptionSource")]

RoamingAnswers ==
  [setCdmaRoamingPreference |-> Plain("setCdmaRoamingPreference"),
   getCdmaRoamingPreference |-> Number("getCdmaRoamingPreference"),
   setTTYMode |-> Plain("setTTYMode"),
   getTTYMode |-> Number("getTTYMode"),
   setPreferredVoicePrivacy |-> Plain("setPreferredVoicePrivacy"),
   getPreferredVoicePrivacy |-> Struct("getPreferredVoicePrivacy")]

CdmaAnswers ==
  [sendCDMAFeatureCode |-> Plain("sendCDMAFeatureCode"),
   sendBurstDtmf |-> Plain("sendBurstDtmf"),
   sendCdmaSms |-> Struct("sendCdmaSms"),
   acknowledgeLastIncomingCdmaSms |-> Plain("acknowledgeLastIncomingCdmaSms"),
   getGsmBroadcastConfig |-> List("getGsmBroadcastConfig"),
   setGsmBroadcastConfig |-> Plain("setGsmBroadcastConfig")]

BroadcastAnswers ==
  [setGsmBroadcastActivation |-> Plain("setGsmBroadcastActivation"),
   getCdmaBroadcastConfig |-> List("getCdmaBroadcastConfig"),
   setCdmaBroadcastConfig |-> Plain("setCdmaBroadcastConfig"),
   setCdmaBroadcastActivation |-> Plain("setCdmaBroadcastActivation"),
   getCDMASubscription |-> Struct("getCDMASubscription")]

DeviceAnswers ==
  [writeSmsToRuim |-> Number("writeSmsToRuim"),
   deleteSmsOnRuim |-> Plain("deleteSmsOnRuim"),
   getDeviceIdentity |-> Struct("getDeviceIdentity"),
   exitEmergencyCallbackMode |-> Plain("exitEmergencyCallbackMode"),
   getSmscAddress |-> Text("getSmscAddress"),
   setSmscAddress |-> Plain("setSmscAddress")]

ReportAnswers ==
  [reportSmsMemoryStatus |-> Plain("reportSmsMemoryStatus"),
   reportStkServiceIsRunning |-> Plain("reportStkServiceIsRunning"),
   getCdmaSubscriptionSource |-> Number("getCdmaSubscriptionSource"),
   requestIsimAuthentication |-> Text("requestIsimAuthentication"),
   acknowledgeIncomingGsmSmsWithPdu |-> Plain("acknowledgeIncomingGsmSmsWithPdu"),
   sendEnvelopeWithStatus |-> Struct("sendEnvelopeWithStatus")]

CellInfoAnswers ==
  [getVoiceRadioTechnology |-> Number("getVoiceRadioTechnology"),
   getCellInfoList |-> List("getCellInfoList"),
   setCellInfoListRate |-> Plain("setCellInfoListRate"),
   setInitialAttachApn |-> Plain("setInitialAttachApn"),
   getImsRegistrationState |-> Struct("getImsRegistrationState"),
   sendImsSms |-> Struct("sendImsSms")]

ApduAnswers ==
  [iccTransmitApduBasicChannel |-> Struct("iccTransmitApduBasicChannel"),
   iccOpenLogicalChannel |-> Lenient("iccOpenLogicalChannel"),
   iccCloseLogicalChannel |-> Plain("iccCloseLogicalChannel"),
   iccTransmitApduLogicalChannel |-> Struct("iccTransmitApduLogicalChannel"),
   nvReadItem |-> Text("nvReadItem"),
   nvWriteItem |-> Plain("nvWriteItem")]

NvAnswers ==
  [nvWriteCdmaPrl |-> Plain("nvWriteCdmaPrl"),
   nvResetConfig |-> Plain("nvResetConfig"),
   setUiccSubscription |-> Plain("setUiccSubscription"),
   setDataAllowed |-> Plain("setDataAllowed"),
   getHardwareConfig |-> List("getHardwareConfig"),
   requestIccSimAuthentication |-> Struct("requestIccSimAuthentication")]

ProfileAnswers ==
  [setDataProfile |-> Plain("setDataProfile"),
   requestShutdown |-> Plain("requestShutdown"),
   getRadioCapability |-> Struct("getRadioCapability"),
   setRadioCapability |-> Struct("setRadioCapability"),
   startLceService |-> Struct("startLceService")]

LceAnswers ==
  [stopLceService |-> Struct("stopLceService"),
   pullLceData |-> Struct("pullLceData"),
   getModemActivityInfo |-> Struct("getModemActivityInfo"),
   setAllowedCarriers |-> Number("setAllowedCarriers")]

CarrierAnswers ==
  [getAllowedCarriers |-> Lenient("getAllowedCarriers"),
   sendDeviceState |-> Plain("sendDeviceState"),
   setCarrierInfoForImsiEncryption |-> Only11(Plain("setCarrierInfoForImsiEncryption")),
   setIndicationFilter |-> Plain("setIndicationFilter"),
   setSimCardPower |-> [Plain("setSimCardPower") EXCEPT !.v1_1 = "setSimCardPower_1_1"]]

ScanAnswers ==
  [startNetworkScan |-> Only11(Plain("startNetworkScan")),
   stopNetworkScan |-> Only11(Plain("stopNetworkScan")),
   startKeepalive |-> Only11(Struct("startKeepalive")),
   stopKeepalive |-> Only11(Plain("stopKeepalive")),
   sendRequestRaw |-> OemHook(Answer("sendRequestRaw", {"absent", "phantom"}))]

OemAnswers ==
  [sendRequestStrings |-> OemHook(List("sendRequestStrings"))]

Answers ==
  PinAnswers @@ ChangePinAnswers @@ CallAnswers @@ SignalAnswers
    @@ VoiceRegistrationAnswers @@ RegistrationAnswers @@ SmsAnswers
    @@ UssdAnswers @@ CallWaitingAnswers @@ FacilityAnswers @@ NetworkAnswers
    @@ MuteAnswers @@ StkAnswers @@ NetworkTypeAnswers @@ RoamingAnswers
    @@ CdmaAnswers @@ BroadcastAnswers @@ DeviceAnswers @@ ReportAnswers
    @@ CellInfoAnswers @@ ApduAnswers @@ NvAnswers @@ ProfileAnswers
    @@ LceAnswers @@ CarrierAnswers @@ ScanAnswers @@ OemAnswers

(***************************************************************************)
(* ril_unsol_commands.h: the indication function of each unsolicited       *)
(* message, without its "Ind" suffix (the third column is WakeLock's).      *)
(***************************************************************************)
UnsolCommands ==
  [RESPONSE_RADIO_STATE_CHANGED |-> "radioStateChanged",
   RESPONSE_CALL_STATE_CHANGED |-> "callStateChanged",
   RESPONSE_VOICE_NETWORK_STATE_CHANGED |-> "networkStateChanged",
   RESPONSE_NEW_SMS |-> "newSms", RESPONSE_NEW_SMS_STATUS_REPORT |-> "newSmsStatusReport",
   RESPONSE_NEW_SMS_ON_SIM |-> "newSmsOnSim", ON_USSD |-> "onUssd",
   ON_USSD_REQUEST |-> "onUssd", NITZ_TIME_RECEIVED |-> "nitzTimeReceived",
   SIGNAL_STRENGTH |-> "currentSignalStrength",
   DATA_CALL_LIST_CHANGED |-> "dataCallListChanged",
   SUPP_SVC_NOTIFICATION |-> "suppSvcNotify", STK_SESSION_END |-> "stkSessionEnd",
   STK_PROACTIVE_COMMAND |-> "stkProactiveCommand", STK_EVENT_NOTIFY |-> "stkEventNotify",
   STK_CALL_SETUP |-> "stkCallSetup", SIM_SMS_STORAGE_FULL |-> "simSmsStorageFull",
   SIM_REFRESH |-> "simRefresh", CALL_RING |-> "callRing",
   RESPONSE_SIM_STATUS_CHANGED |-> "simStatusChanged",
   RESPONSE_CDMA_NEW_SMS |-> "cdmaNewSms",
   RESPONSE_NEW_BROADCAST_SMS |-> "newBroadcastSms",
   CDMA_RUIM_SMS_STORAGE_FULL |-> "cdmaRuimSmsStorageFull",
   RESTRICTED_STATE_CHANGED |-> "restrictedStateChanged",
   ENTER_EMERGENCY_CALLBACK_MODE |-> "enterEmergencyCallbackMode",
   CDMA_CALL_WAITING |-> "cdmaCallWaiting",
   CDMA_OTA_PROVISION_STATUS |-> "cdmaOtaProvisionStatus", CDMA_INFO_REC |-> "cdmaInfoRec",
   OEM_HOOK_RAW |-> "oemHookRaw", RINGBACK_TONE |-> "indicateRingbackTone",
   RESEND_INCALL_MUTE |-> "resendIncallMute",
   CDMA_SUBSCRIPTION_SOURCE_CHANGED |-> "cdmaSubscriptionSourceChanged",
   CDMA_PRL_CHANGED |-> "cdmaPrlChanged",
   EXIT_EMERGENCY_CALLBACK_MODE |-> "exitEmergencyCallbackMode",
   RIL_CONNECTED |-> "rilConnected", VOICE_RADIO_TECH_CHANGED |-> "voiceRadioTechChanged",
   CELL_INFO_LIST |-> "cellInfoList",
   RESPONSE_IMS_NETWORK_STATE_CHANGED |-> "imsNetworkStateChanged",
   UICC_SUBSCRIPTION_STATUS_CHANGED |-> "subscriptionStatusChanged",
   SRVCC_STATE_NOTIFY |-> "srvccStateNotify",
   HARDWARE_CONFIG_CHANGED |-> "hardwareConfigChanged", DC_RT_INFO_CHANGED |-> "none",
   RADIO_CAPABILITY |-> "radioCapabilityIndication",
   ON_SS |-> "onSupplementaryServiceIndication",
   STK_CC_ALPHA_NOTIFY |-> "stkCallControlAlphaNotify", LCEDATA_RECV |-> "lceData",
   PCO_DATA |-> "pcoData", MODEM_RESTART |-> "modemReset",
   CARRIER_INFO_IMSI_ENCRYPTION |-> "carrierInfoForImsiEncryption",
   NETWORK_SCAN_RESULT |-> "networkScanResult", KEEPALIVE_STATUS |-> "keepaliveStatus"]

(***************************************************************************)
(* The indication functions. A payload may here also be "empty" (data of   *)
(* length 0). Each entry gives the callback, the payloads that are         *)
(* delivered (all others are dropped), whether the callback is one of the  *)
(* 1.1 interface, and how that interface is found: kept since              *)
(* setResponseFunctions, or cast from the client's at each call.           *)
(***************************************************************************)
Indication(callback, accepts) ==
  [callback |-> callback, accepts |-> accepts, only11 |-> FALSE, cast |-> FALSE,
   oem |-> FALSE]

Signal(callback) ==
  Indication(callback, {"absent", "phantom", "empty", "misfit", "fits"})
Bytes(callback) == Indication(callback, {"misfit", "fits"})
Record(callback) == Indication(callback, {"fits"})
Records(callback) == Indication(callback, {"absent", "empty", "fits"})
Ring(callback) == Indication(callback, {"absent", "phantom", "empty", "fits"})

StateIndications ==
  [radioStateChanged |-> Signal("radioStateChanged"),
   callStateChanged |-> Signal("callStateChanged"),
   networkStateChanged |-> Signal("networkStateChanged"),
   newSms |-> Record("newSms"),
   newSmsStatusReport |-> Record("newSmsStatusReport")]

UssdIndications ==
  [newSmsOnSim |-> Record("newSmsOnSim"),
   onUssd |-> Record("onUssd"),
   nitzTimeReceived |-> Bytes("nitzTimeReceived")]

SignalIndications ==
  [currentSignalStrength |-> Record("currentSignalStrength"),
   dataCallListChanged |-> Records("dataCallListChanged")]

StkIndications ==
  [suppSvcNotify |-> Record("suppSvcNotify"),
   stkSessionEnd |-> Signal("stkSessionEnd"),
   stkProactiveCommand |-> Bytes("stkProactiveCommand"),
   stkEventNotify |-> Bytes("stkEventNotify"),
   stkCallSetup |-> Record("stkCallSetup"),
   simSmsStorageFull |-> Signal("simSmsStorageFull")]

RingIndications ==
  [simRefresh |-> Record("simRefresh"),
   callRing |-> Ring("callRing"),
   simStatusChanged |-> Signal("simStatusChanged"),
   cdmaNewSms |-> Record("cdmaNewSms")]

EmergencyIndications ==
  [newBroadcastSms |-> Bytes("newBroadcastSms"),
   cdmaRuimSmsStorageFull |-> Signal("cdmaRuimSmsStorageFull"),
   restrictedStateChanged |-> Record("restrictedStateChanged"),
   enterEmergencyCallbackMode |-> Signal("enterEmergencyCallbackMode"),
   cdmaCallWaiting |-> Record("cdmaCallWaiting"),
   cdmaOtaProvisionStatus |-> Record("cdmaOtaProvisionStatus")]

CdmaInfoIndications ==
  [cdmaInfoRec |-> Record("cdmaInfoRec")]

SubscriptionIndications ==
  [indicateRingbackTone |-> Record("indicateRingbackTone"),
   resendIncallMute |-> Signal("resendIncallMute"),
   cdmaSubscriptionSourceChanged |-> Record("cdmaSubscriptionSourceChanged"),
   cdmaPrlChanged |-> Record("cdmaPrlChanged"),
   exitEmergencyCallbackMode |-> Signal("exitEmergencyCallbackMode"),
   rilConnected |-> Signal("rilConnected"),
   voiceRadioTechChanged |-> Record("voiceRadioTechChanged")]

CellIndications ==
  [cellInfoList |-> Records("cellInfoList"),
   imsNetworkStateChanged |-> Signal("imsNetworkStateChanged"),
   subscriptionStatusChanged |-> Record("subscriptionStatusChanged"),
   srvccStateNotify |-> Record("srvccStateNotify"),
   hardwareConfigChanged |-> Records("hardwareConfigChanged")]

CapabilityIndications ==
  [radioCapabilityIndication |-> Record("radioCapabilityIndication"),
   onSupplementaryServiceIndication |-> Record("onSupplementaryServiceIndication"),
   stkCallControlAlphaNotify |-> Bytes("stkCallControlAlphaNotify")]

LceIndications ==
  [lceData |-> Record("lceData"),
   pcoData |-> Record("pcoData"),
   modemReset |-> Bytes("modemReset"),
   networkScanResult |-> [Bytes("networkScanResult") EXCEPT !.only11 = TRUE],
   carrierInfoForImsiEncryption |->
     [Bytes("carrierInfoForImsiEncryption") EXCEPT !.only11 = TRUE]]

KeepaliveIndications ==
  [keepaliveStatus |-> [Record("keepaliveStatus") EXCEPT !.only11 = TRUE, !.cast = TRUE],
   oemHookRaw |-> [Bytes("oemHookRaw") EXCEPT !.oem = TRUE]]

Indications ==
  StateIndications @@ UssdIndications @@ SignalIndications
    @@ StkIndications @@ RingIndications @@ EmergencyIndications
    @@ CdmaInfoIndications @@ SubscriptionIndications @@ CellIndications
    @@ CapabilityIndications @@ LceIndications @@ KeepaliveIndications

============================================================================
