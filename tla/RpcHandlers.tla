---------------------------- MODULE RpcHandlers -----------------------------
(* The RPC handlers of message_handler.go that talk to the engine or to    *)
(* switchboard, one row each: what is checked first, which message is       *)
(* written, which message is listened for (with which buffer) and how long  *)
(* the handler waits. The conversion of the answer into the response (and   *)
(* its status) is left out; every handler reads the answer with the getter  *)
(* of the member it listens for.                                            *)
EXTENDS Naturals, TLC

(* DriveWheels and its like: write and return REQUEST_PROCESSING.           *)
Tell(out) ==
  [manager |-> "proto", check |-> "none", out |-> out, in |-> "none",
   room |-> 0, wait |-> "no", minds |-> TRUE]

(* DriveOffCharger and its like: make a channel for the answer, write, wait *)
(* for one answer without limit, return it.                                 *)
Ask(out, in) == [Tell(out) EXCEPT !.in = in, !.room = 1, !.wait = "one"]

(* UpdateSettings and its like: only if nobody listens for the answer.      *)
AskUnique(out, in) == [Ask(out, in) EXCEPT !.check = "unique"]

(* ValidateActionTag before anything else.                                  *)
AskTagged(out, in) == [Ask(out, in) EXCEPT !.check = "tag"]

(* SayText: goes on until an answer says FINISHED or INVALID.               *)
AskUntilFinished(out, in) == [Ask(out, in) EXCEPT !.wait = "finished"]

(* ListAnimations: until the name endOfAnimationList, each answer within    *)
(* some seconds of the one before.                                          *)
AskList(out, in) == [Ask(out, in) EXCEPT !.room = 500, !.wait = "list"]

(* EnableMarkerDetection: does not wait when the mode is turned off.        *)
AskIfOn(out, in) == [Ask(out, in) EXCEPT !.wait = "if_on"]

(* Photo, Thumbnail: the answer is the path of a file, which may be missing.*)
AskFile(out, in) == [Ask(out, in) EXCEPT !.wait = "file"]

(* CheckCloudConnection: beyond the rate, the last result.                  *)
AskLimited(out, in) == [Ask(out, in) EXCEPT !.check = "rate"]

TellClad(out) == [Tell(out) EXCEPT !.manager = "clad"]
AskClad(out, in) == [Ask(out, in) EXCEPT !.manager = "clad"]

(* UserAuthentication: the error of Write is not looked at; after a good    *)
(* answer the handler waits for new tokens as well.                         *)
AskSwitchboard(out, in) ==
  [Ask(out, in) EXCEPT !.manager = "switchboard", !.check = "rate",
                       !.minds = FALSE, !.wait = "auth"]

(* No message at all.                                                       *)
Local == [Tell("none") EXCEPT !.manager = "none"]

-----------------------------------------------------------------------------
SendOnboardingComplete ==
  Ask("OnboardingCompleteRequest", "OnboardingCompleteResponse")

SendOnboardingWakeUpStarted ==
  Ask("OnboardingWakeUpStartedRequest", "OnboardingWakeUpStartedResponse")

SendOnboardingWakeUp ==
  Ask("OnboardingWakeUpRequest", "OnboardingWakeUpResponse")

SendOnboardingSkipOnboarding == Tell("OnboardingSkipOnboarding")

SendOnboardingRestart == Tell("OnboardingRestart")

SendOnboardingSetPhase ==
  Ask("OnboardingSetPhaseRequest", "OnboardingSetPhaseResponse")

SendOnboardingPhaseProgress ==
  Ask("OnboardingPhaseProgressRequest", "OnboardingPhaseProgressResponse")

SendOnboardingChargeInfo ==
  Ask("OnboardingChargeInfoRequest", "OnboardingChargeInfoResponse")

SendOnboardingMarkCompleteAndExit == Tell("OnboardingMarkCompleteAndExit")

ProtocolVersion == Local

DriveWheels == Tell("DriveWheelsRequest")

PlayAnimationTrigger ==
  Ask("PlayAnimationTriggerRequest", "PlayAnimationResponse")

PlayAnimation == Ask("PlayAnimationRequest", "PlayAnimationResponse")

ListAnimations == AskList("ListAnimationsRequest", "ListAnimationsResponse")

ListAnimationTriggers ==
  AskList("ListAnimationTriggersRequest", "ListAnimationTriggersResponse")

MoveHead == TellClad("MoveHead")

MoveLift == TellClad("MoveLift")

StopAllMotors == Tell("StopAllMotorsRequest")

CancelBehavior == Tell("CancelBehaviorRequest")

CancelActionByIdTag == Tell("CancelActionByIdTagRequest")

(* In 30 chunks, up to the first error, which is not looked at.            *)
DisplayFaceImageRGB ==
  [TellClad("DisplayFaceImageRGBChunk") EXCEPT !.minds = FALSE]

AppIntent == TellClad("AppIntent")

CancelFaceEnrollment == TellClad("CancelFaceEnrollment")

RequestEnrolledNames ==
  AskClad("RequestEnrolledNames", "EnrolledNamesResponse")

UpdateEnrolledFaceByID == TellClad("UpdateEnrolledFaceByID")

EraseEnrolledFaceByID == TellClad("EraseEnrolledFaceByID")

EraseAllEnrolledFaces == TellClad("EraseAllEnrolledFaces")

SetFaceToEnroll == Ask("SetFaceToEnrollRequest", "SetFaceToEnrollResponse")

EnrollFace == Ask("EnrollFaceRequest", "EnrollFaceResponse")

SDKInitialization == Local

DriveOffCharger == Ask("DriveOffChargerRequest", "DriveOffChargerResponse")

DriveOnCharger == Ask("DriveOnChargerRequest", "DriveOnChargerResponse")

FindFaces == Ask("FindFacesRequest", "FindFacesResponse")

LookAroundInPlace ==
  Ask("LookAroundInPlaceRequest", "LookAroundInPlaceResponse")

RollBlock == Ask("RollBlockRequest", "RollBlockResponse")

GetOnboardingState == Ask("OnboardingStateRequest", "OnboardingState")

SendOnboardingInput ==
  [Complete |-> SendOnboardingComplete,
   WakeUpStarted |-> SendOnboardingWakeUpStarted,
   WakeUp |-> SendOnboardingWakeUp,
   SkipOnboarding |-> SendOnboardingSkipOnboarding,
   Restart |-> SendOnboardingRestart,
   SetPhase |-> SendOnboardingSetPhase,
   PhaseProgress |-> SendOnboardingPhaseProgress,
   ChargeInfo |-> SendOnboardingChargeInfo,
   MarkCompleteAndExit |-> SendOnboardingMarkCompleteAndExit,
   unexpected |-> [Local EXCEPT !.check = "kind"]]

PhotosInfo == Ask("PhotosInfoRequest", "PhotosInfoResponse")

Photo == AskFile("PhotoRequest", "PhotoPathMessage")

Thumbnail == AskFile("ThumbnailRequest", "ThumbnailPathMessage")

DeletePhoto == Ask("DeletePhotoRequest", "DeletePhotoResponse")

GetLatestAttentionTransfer ==
  Ask("LatestAttentionTransferRequest", "LatestAttentionTransfer")

ConnectCube == Ask("ConnectCubeRequest", "ConnectCubeResponse")

DisconnectCube == Tell("DisconnectCubeRequest")

CubesAvailable == Ask("CubesAvailableRequest", "CubesAvailableResponse")

FlashCubeLights == Tell("FlashCubeLightsRequest")

ForgetPreferredCube == Tell("ForgetPreferredCubeRequest")

SetPreferredCube == Tell("SetPreferredCubeRequest")

SetCubeLights == Tell("SetCubeLightsRequest")

RobotStatusHistory == Ask("RobotHistoryRequest", "RobotHistoryResponse")

PullJdocs == Ask("PullJdocsRequest", "PullJdocsResponse")

UpdateSettings ==
  AskUnique("UpdateSettingsRequest", "UpdateSettingsResponse")

UpdateAccountSettings ==
  AskUnique("UpdateAccountSettingsRequest", "UpdateAccountSettingsResponse")

UpdateUserEntitlements ==
  AskUnique("UpdateUserEntitlementsRequest",
            "UpdateUserEntitlementsResponse")

UserAuthentication == AskSwitchboard("AuthRequest", "AuthResponse")

GoToPose == AskTagged("GoToPoseRequest", "GoToPoseResponse")

DockWithCube == AskTagged("DockWithCubeRequest", "DockWithCubeResponse")

DriveStraight == AskTagged("DriveStraightRequest", "DriveStraightResponse")

TurnInPlace == AskTagged("TurnInPlaceRequest", "TurnInPlaceResponse")

SetHeadAngle == AskTagged("SetHeadAngleRequest", "SetHeadAngleResponse")

SetLiftHeight == AskTagged("SetLiftHeightRequest", "SetLiftHeightResponse")

TurnTowardsFace ==
  AskTagged("TurnTowardsFaceRequest", "TurnTowardsFaceResponse")

GoToObject == AskTagged("GoToObjectRequest", "GoToObjectResponse")

RollObject == AskTagged("RollObjectRequest", "RollObjectResponse")

PopAWheelie == AskTagged("PopAWheelieRequest", "PopAWheelieResponse")

PickupObject == AskTagged("PickupObjectRequest", "PickupObjectResponse")

PlaceObjectOnGroundHere ==
  AskTagged("PlaceObjectOnGroundHereRequest",
            "PlaceObjectOnGroundHereResponse")

SetMasterVolume == Ask("MasterVolumeRequest", "MasterVolumeResponse")

BatteryState == Ask("BatteryStateRequest", "BatteryStateResponse")

VersionState == Ask("VersionStateRequest", "VersionStateResponse")

SayText == AskUntilFinished("SayTextRequest", "SayTextResponse")

EnableMarkerDetection ==
  AskIfOn("EnableMarkerDetectionRequest", "EnableMarkerDetectionResponse")

EnableFaceDetection ==
  Ask("EnableFaceDetectionRequest", "EnableFaceDetectionResponse")

EnableMotionDetection ==
  Ask("EnableMotionDetectionRequest", "EnableMotionDetectionResponse")

EnableMirrorMode ==
  Ask("EnableMirrorModeRequest", "EnableMirrorModeResponse")

EnableImageStreaming ==
  Ask("EnableImageStreamingRequest", "EnableImageStreamingResponse")

IsImageStreamingEnabled ==
  Ask("IsImageStreamingEnabledRequest", "IsImageStreamingEnabledResponse")

UpdateAndRestart == Local

UploadDebugLogs == [Local EXCEPT !.check = "rate"]

CheckCloudConnection == AskLimited("CheckCloudRequest", "CheckCloudResponse")

DeleteCustomObjects ==
  [ARCHETYPES |-> AskClad("UndefineAllCustomMarkerObjects",
                          "RobotDeletedCustomMarkerObjects"),
   FIXED_CUSTOM_OBJECTS |-> AskClad("DeleteFixedCustomObjects",
                                    "RobotDeletedFixedCustomObjects"),
   CUSTOM_MARKER_OBJECTS |-> AskClad("DeleteCustomMarkerObjects",
                                     "RobotDeletedCustomMarkerObjects"),
   UNKNOWN |-> AskClad("nil", "INVALID")]

CreateFixedCustomObject ==
  AskClad("CreateFixedCustomObject", "CreatedFixedCustomObject")

DefineCustomObject ==
  [CustomBox |-> AskClad("DefineCustomBox", "DefinedCustomObject"),
   CustomCube |-> AskClad("DefineCustomCube", "DefinedCustomObject"),
   CustomWall |-> AskClad("DefineCustomWall", "DefinedCustomObject"),
   unexpected |-> [AskClad("nil", "DefinedCustomObject") EXCEPT
                     !.check = "kind"]]

GetFeatureFlag == Ask("FeatureFlagRequest", "FeatureFlagResponse")

GetFeatureFlagList ==
  Ask("FeatureFlagListRequest", "FeatureFlagListResponse")

GetAlexaAuthState == Ask("AlexaAuthStateRequest", "AlexaAuthStateResponse")

AlexaOptIn == Tell("AlexaOptInRequest")

SetEyeColor == Tell("SetEyeColorRequest")

GetCameraConfig == Ask("CameraConfigRequest", "CameraConfigResponse")

SetCameraSettings ==
  Ask("SetCameraSettingsRequest", "SetCameraSettingsResponse")

(* The handlers by name; where the request selects the messages, by what it *)
(* selects.                                                                 *)
Handlers ==
  [ProtocolVersion |-> ProtocolVersion, DriveWheels |-> DriveWheels,
   PlayAnimationTrigger |-> PlayAnimationTrigger,
   PlayAnimation |-> PlayAnimation, ListAnimations |-> ListAnimations,
   ListAnimationTriggers |-> ListAnimationTriggers, MoveHead |-> MoveHead,
   MoveLift |-> MoveLift, StopAllMotors |-> StopAllMotors,
   CancelBehavior |-> CancelBehavior,
   CancelActionByIdTag |-> CancelActionByIdTag,
   DisplayFaceImageRGB |-> DisplayFaceImageRGB, AppIntent |-> AppIntent,
   CancelFaceEnrollment |-> CancelFaceEnrollment,
   RequestEnrolledNames |-> RequestEnrolledNames,
   UpdateEnrolledFaceByID |-> UpdateEnrolledFaceByID,
   EraseEnrolledFaceByID |-> EraseEnrolledFaceByID,
   EraseAllEnrolledFaces |-> EraseAllEnrolledFaces,
   SetFaceToEnroll |-> SetFaceToEnroll, EnrollFace |-> EnrollFace,
   SDKInitialization |-> SDKInitialization,
   DriveOffCharger |-> DriveOffCharger, DriveOnCharger |-> DriveOnCharger,
   FindFaces |-> FindFaces, LookAroundInPlace |-> LookAroundInPlace,
   RollBlock |-> RollBlock, GetOnboardingState |-> GetOnboardingState,
   PhotosInfo |-> PhotosInfo, Photo |-> Photo, Thumbnail |-> Thumbnail,
   DeletePhoto |-> DeletePhoto,
   GetLatestAttentionTransfer |-> GetLatestAttentionTransfer,
   ConnectCube |-> ConnectCube, DisconnectCube |-> DisconnectCube,
   CubesAvailable |-> CubesAvailable, FlashCubeLights |-> FlashCubeLights,
   ForgetPreferredCube |-> ForgetPreferredCube,
   SetPreferredCube |-> SetPreferredCube, SetCubeLights |-> SetCubeLights,
   RobotStatusHistory |-> RobotStatusHistory, PullJdocs |-> PullJdocs,
   UpdateSettings |-> UpdateSettings,
   UpdateAccountSettings |-> UpdateAccountSettings,
   UpdateUserEntitlements |-> UpdateUserEntitlements,
   UserAuthentication |-> UserAuthentication, GoToPose |-> GoToPose,
   DockWithCube |-> DockWithCube, DriveStraight |-> DriveStraight,
   TurnInPlace |-> TurnInPlace, SetHeadAngle |-> SetHeadAngle,
   SetLiftHeight |-> SetLiftHeight, TurnTowardsFace |-> TurnTowardsFace,
   GoToObject |-> GoToObject, RollObject |-> RollObject,
   PopAWheelie |-> PopAWheelie, PickupObject |-> PickupObject,
   PlaceObjectOnGroundHere |-> PlaceObjectOnGroundHere,
   SetMasterVolume |-> SetMasterVolume, BatteryState |-> BatteryState,
   VersionState |-> VersionState, SayText |-> SayText,
   EnableMarkerDetection |-> EnableMarkerDetection,
   EnableFaceDetection |-> EnableFaceDetection,
   EnableMotionDetection |-> EnableMotionDetection,
   EnableMirrorMode |-> EnableMirrorMode,
   EnableImageStreaming |-> EnableImageStreaming,
   IsImageStreamingEnabled |-> IsImageStreamingEnabled,
   UpdateAndRestart |-> UpdateAndRestart,
   UploadDebugLogs |-> UploadDebugLogs,
   CheckCloudConnection |-> CheckCloudConnection,
   CreateFixedCustomObject |-> CreateFixedCustomObject,
   GetFeatureFlag |-> GetFeatureFlag,
   GetFeatureFlagList |-> GetFeatureFlagList,
   GetAlexaAuthState |-> GetAlexaAuthState, AlexaOptIn |-> AlexaOptIn,
   SetEyeColor |-> SetEyeColor, GetCameraConfig |-> GetCameraConfig,
   SetCameraSettings |-> SetCameraSettings,
   SendOnboardingInput_Complete |-> SendOnboardingInput.Complete,
   SendOnboardingInput_WakeUpStarted |-> SendOnboardingInput.WakeUpStarted,
   SendOnboardingInput_WakeUp |-> SendOnboardingInput.WakeUp,
   SendOnboardingInput_SkipOnboarding |-> SendOnboardingInput.SkipOnboarding,
   SendOnboardingInput_Restart |-> SendOnboardingInput.Restart,
   SendOnboardingInput_SetPhase |-> SendOnboardingInput.SetPhase,
   SendOnboardingInput_PhaseProgress |-> SendOnboardingInput.PhaseProgress,
   SendOnboardingInput_ChargeInfo |-> SendOnboardingInput.ChargeInfo,
   SendOnboardingInput_MarkCompleteAndExit |-> SendOnboardingInput.MarkCompleteAndExit,
   SendOnboardingInput_unexpected |-> SendOnboardingInput.unexpected,
   DeleteCustomObjects_ARCHETYPES |-> DeleteCustomObjects.ARCHETYPES,
   DeleteCustomObjects_FIXED_CUSTOM_OBJECTS |-> DeleteCustomObjects.FIXED_CUSTOM_OBJECTS,
   DeleteCustomObjects_CUSTOM_MARKER_OBJECTS |-> DeleteCustomObjects.CUSTOM_MARKER_OBJECTS,
   DeleteCustomObjects_UNKNOWN |-> DeleteCustomObjects.UNKNOWN,
   DefineCustomObject_CustomBox |-> DefineCustomObject.CustomBox,
   DefineCustomObject_CustomCube |-> DefineCustomObject.CustomCube,
   DefineCustomObject_CustomWall |-> DefineCustomObject.CustomWall,
   DefineCustomObject_unexpected |-> DefineCustomObject.unexpected]
=============================================================================
