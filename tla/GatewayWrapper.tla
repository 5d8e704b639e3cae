--------------------------- MODULE GatewayWrapper ---------------------------
(* The messages between vic-gateway and the engine's protobuf socket: one  *)
(* oneof of 149 members, and the oneof of events inside it. For every       *)
(* member the generated code states its field number in the struct tag,    *)
(* in the marshaler and in the unmarshaler, and the length of the encoded  *)
(* number in the sizer; a table is one of these functions. The marshaler   *)
(* writes number * 8 + WireBytes, the unmarshaler makes the member of the  *)
(* case and refuses another wire type, a getter returns nil for any other  *)
(* member. Types, Getters and OneofFuncs list the members the types, the   *)
(* getters and the registration know.                                      *)
EXTENDS Naturals, TLC

Types1 ==
  [Event |-> 2, OnboardingStateRequest |-> 3, OnboardingState |-> 4,
   OnboardingSkipOnboarding |-> 5, OnboardingRestart |-> 6,
   OnboardingCompleteRequest |-> 11, OnboardingCompleteResponse |-> 12,
   OnboardingWakeUpRequest |-> 13, OnboardingWakeUpResponse |-> 14,
   OnboardingWakeUpStartedRequest |-> 15,
   OnboardingWakeUpStartedResponse |-> 16, OnboardingSetPhaseRequest |-> 17,
   OnboardingSetPhaseResponse |-> 18, OnboardingPhaseProgressRequest |-> 19,
   OnboardingPhaseProgressResponse |-> 20,
   OnboardingChargeInfoRequest |-> 21, OnboardingChargeInfoResponse |-> 22,
   OnboardingMarkCompleteAndExit |-> 23,
   LatestAttentionTransferRequest |-> 100, LatestAttentionTransfer |-> 101,
   PhotosInfoRequest |-> 200, PhotosInfoResponse |-> 201,
   PhotoRequest |-> 202, PhotoPathMessage |-> 203, ThumbnailRequest |-> 204,
   ThumbnailPathMessage |-> 205, DeletePhotoRequest |-> 206,
   DeletePhotoResponse |-> 207, PullJdocsRequest |-> 300,
   PullJdocsResponse |-> 301, UpdateSettingsRequest |-> 302,
   UpdateSettingsResponse |-> 303, UpdateAccountSettingsRequest |-> 304,
   UpdateAccountSettingsResponse |-> 305,
   UpdateUserEntitlementsRequest |-> 306,
   UpdateUserEntitlementsResponse |-> 307, DriveOffChargerRequest |-> 400,
   DriveOffChargerResponse |-> 401, DriveOnChargerRequest |-> 402,
   DriveOnChargerResponse |-> 403, FindFacesRequest |-> 404,
   FindFacesResponse |-> 405, LookAroundInPlaceRequest |-> 406,
   LookAroundInPlaceResponse |-> 407, RollBlockRequest |-> 408,
   RollBlockResponse |-> 409, EnrollFaceRequest |-> 410,
   EnrollFaceResponse |-> 411, SetFaceToEnrollRequest |-> 412,
   SetFaceToEnrollResponse |-> 413]

Types2 ==
  [CancelBehaviorRequest |-> 414, CancelBehaviorResponse |-> 415,
   TurnInPlaceRequest |-> 500, TurnInPlaceResponse |-> 501,
   DriveStraightRequest |-> 502, DriveStraightResponse |-> 503,
   SetHeadAngleRequest |-> 504, SetHeadAngleResponse |-> 505,
   SetLiftHeightRequest |-> 506, SetLiftHeightResponse |-> 507,
   PlayAnimationRequest |-> 508, PlayAnimationResponse |-> 509,
   GoToPoseRequest |-> 510, GoToPoseResponse |-> 511,
   DockWithCubeRequest |-> 512, DockWithCubeResponse |-> 513,
   DriveWheelsRequest |-> 514, DriveWheelsResponse |-> 515,
   ListAnimationsRequest |-> 516, ListAnimationsResponse |-> 517,
   PlayAnimationTriggerRequest |-> 518, ListAnimationTriggersRequest |-> 519,
   ListAnimationTriggersResponse |-> 520, CancelActionByIdTagRequest |-> 521,
   CancelActionByIdTagResponse |-> 522, TurnTowardsFaceRequest |-> 523,
   TurnTowardsFaceResponse |-> 524, GoToObjectRequest |-> 525,
   GoToObjectResponse |-> 526, RollObjectRequest |-> 527,
   RollObjectResponse |-> 528, PopAWheelieRequest |-> 529,
   PopAWheelieResponse |-> 530, PickupObjectRequest |-> 531,
   PickupObjectResponse |-> 532, PlaceObjectOnGroundHereRequest |-> 533,
   PlaceObjectOnGroundHereResponse |-> 534, StopAllMotorsRequest |-> 535,
   StopAllMotorsResponse |-> 536, RobotHistoryRequest |-> 600,
   RobotHistoryResponse |-> 601, ConnectCubeRequest |-> 700,
   ConnectCubeResponse |-> 701, DisconnectCubeRequest |-> 702,
   FlashCubeLightsRequest |-> 703, ForgetPreferredCubeRequest |-> 704,
   SetPreferredCubeRequest |-> 705, SetCubeLightsRequest |-> 706,
   CubesAvailableRequest |-> 707, CubesAvailableResponse |-> 708]

Types3 ==
  [BatteryStateRequest |-> 800, BatteryStateResponse |-> 801,
   VersionStateRequest |-> 802, VersionStateResponse |-> 803,
   SayTextRequest |-> 900, SayTextResponse |-> 901, ControlRequest |-> 1000,
   ControlRelease |-> 1001, BehaviorControlResponse |-> 1002,
   ImageChunk |-> 1101, EnableMarkerDetectionRequest |-> 1102,
   EnableMarkerDetectionResponse |-> 1103,
   EnableFaceDetectionRequest |-> 1104, EnableFaceDetectionResponse |-> 1105,
   EnableMotionDetectionRequest |-> 1106,
   EnableMotionDetectionResponse |-> 1107, EnableMirrorModeRequest |-> 1108,
   EnableMirrorModeResponse |-> 1109, EnableImageStreamingRequest |-> 1110,
   EnableImageStreamingResponse |-> 1111,
   IsImageStreamingEnabledRequest |-> 1112,
   IsImageStreamingEnabledResponse |-> 1113, CheckCloudRequest |-> 1200,
   CheckCloudResponse |-> 1201, AudioSendModeRequest |-> 1300,
   AudioSendModeChanged |-> 1301, AudioChunk |-> 1302,
   FeatureFlagRequest |-> 1400, FeatureFlagResponse |-> 1401,
   FeatureFlagListRequest |-> 1402, FeatureFlagListResponse |-> 1403,
   AppDisconnected |-> 1500, AlexaAuthStateRequest |-> 1600,
   AlexaAuthStateResponse |-> 1601, AlexaOptInRequest |-> 1602,
   AlexaOptInResponse |-> 1603, SetEyeColorRequest |-> 1700,
   SetEyeColorResponse |-> 1701, MasterVolumeRequest |-> 1702,
   MasterVolumeResponse |-> 1703, SetCameraSettingsRequest |-> 1704,
   SetCameraSettingsResponse |-> 1705, CameraConfigRequest |-> 1706,
   CameraConfigResponse |-> 1707, ExternalAudioStreamPrepare |-> 1800,
   ExternalAudioStreamChunk |-> 1801, ExternalAudioStreamCancel |-> 1802,
   ExternalAudioStreamComplete |-> 1803, ExternalAudioStreamResponse |-> 1804]

Types ==
  Types1 @@ Types2 @@ Types3

Getters1 ==
  {"Event", "OnboardingStateRequest", "OnboardingState",
   "OnboardingSkipOnboarding", "OnboardingRestart",
   "OnboardingCompleteRequest", "OnboardingCompleteResponse",
   "OnboardingWakeUpRequest", "OnboardingWakeUpResponse",
   "OnboardingWakeUpStartedRequest", "OnboardingWakeUpStartedResponse",
   "OnboardingSetPhaseRequest", "OnboardingSetPhaseResponse",
   "OnboardingPhaseProgressRequest", "OnboardingPhaseProgressResponse",
   "OnboardingChargeInfoRequest", "OnboardingChargeInfoResponse",
   "OnboardingMarkCompleteAndExit", "LatestAttentionTransferRequest",
   "LatestAttentionTransfer", "PhotosInfoRequest"}

Getters2 ==
  {"PhotosInfoResponse", "PhotoRequest", "PhotoPathMessage",
   "ThumbnailRequest", "ThumbnailPathMessage", "DeletePhotoRequest",
   "DeletePhotoResponse", "PullJdocsRequest", "PullJdocsResponse",
   "UpdateSettingsRequest", "UpdateSettingsResponse",
   "UpdateAccountSettingsRequest", "UpdateAccountSettingsResponse",
   "UpdateUserEntitlementsRequest", "UpdateUserEntitlementsResponse",
   "DriveOffChargerRequest", "DriveOffChargerResponse",
   "DriveOnChargerRequest", "DriveOnChargerResponse", "FindFacesRequest",
   "FindFacesResponse"}

Getters3 ==
  {"LookAroundInPlaceRequest", "LookAroundInPlaceResponse",
   "RollBlockRequest", "RollBlockResponse", "EnrollFaceRequest",
   "EnrollFaceResponse", "SetFaceToEnrollRequest", "SetFaceToEnrollResponse",
   "CancelBehaviorRequest", "CancelBehaviorResponse", "TurnInPlaceRequest",
   "TurnInPlaceResponse", "DriveStraightRequest", "DriveStraightResponse",
   "SetHeadAngleRequest", "SetHeadAngleResponse", "SetLiftHeightRequest",
   "SetLiftHeightResponse", "PlayAnimationRequest", "PlayAnimationResponse",
   "GoToPoseRequest"}

Getters4 ==
  {"GoToPoseResponse", "DockWithCubeRequest", "DockWithCubeResponse",
   "DriveWheelsRequest", "DriveWheelsResponse", "ListAnimationsRequest",
   "ListAnimationsResponse", "PlayAnimationTriggerRequest",
   "ListAnimationTriggersRequest", "ListAnimationTriggersResponse",
   "CancelActionByIdTagRequest", "CancelActionByIdTagResponse",
   "TurnTowardsFaceRequest", "TurnTowardsFaceResponse", "GoToObjectRequest",
   "GoToObjectResponse", "RollObjectRequest", "RollObjectResponse",
   "PopAWheelieRequest", "PopAWheelieResponse", "PickupObjectRequest"}

Getters5 ==
  {"PickupObjectResponse", "PlaceObjectOnGroundHereRequest",
   "PlaceObjectOnGroundHereResponse", "StopAllMotorsRequest",
   "StopAllMotorsResponse", "RobotHistoryRequest", "RobotHistoryResponse",
   "ConnectCubeRequest", "ConnectCubeResponse", "DisconnectCubeRequest",
   "FlashCubeLightsRequest", "ForgetPreferredCubeRequest",
   "SetPreferredCubeRequest", "SetCubeLightsRequest",
   "CubesAvailableRequest", "CubesAvailableResponse", "BatteryStateRequest",
   "BatteryStateResponse", "VersionStateRequest", "VersionStateResponse",
   "SayTextRequest"}

Getters6 ==
  {"SayTextResponse", "ControlRequest", "ControlRelease",
   "BehaviorControlResponse", "ImageChunk", "EnableMarkerDetectionRequest",
   "EnableMarkerDetectionResponse", "EnableFaceDetectionRequest",
   "EnableFaceDetectionResponse", "EnableMotionDetectionRequest",
   "EnableMotionDetectionResponse", "EnableMirrorModeRequest",
   "EnableMirrorModeResponse", "EnableImageStreamingRequest",
   "EnableImageStreamingResponse", "IsImageStreamingEnabledRequest",
   "IsImageStreamingEnabledResponse", "CheckCloudRequest",
   "CheckCloudResponse", "AudioSendModeRequest", "AudioSendModeChanged"}

Getters7 ==
  {"AudioChunk", "FeatureFlagRequest", "FeatureFlagResponse",
   "FeatureFlagListRequest", "FeatureFlagListResponse", "AppDisconnected",
   "AlexaAuthStateRequest", "AlexaAuthStateResponse", "AlexaOptInRequest",
   "AlexaOptInResponse", "SetEyeColorRequest", "SetEyeColorResponse",
   "MasterVolumeRequest", "MasterVolumeResponse", "SetCameraSettingsRequest",
   "SetCameraSettingsResponse", "CameraConfigRequest",
   "CameraConfigResponse", "ExternalAudioStreamPrepare",
   "ExternalAudioStreamChunk", "ExternalAudioStreamCancel"}

Getters8 ==
  {"ExternalAudioStreamComplete", "ExternalAudioStreamResponse"}

Getters ==
  Getters1 \union Getters2 \union Getters3 \union Getters4 \union Getters5
  \union Getters6 \union Getters7 \union Getters8

OneofFuncs ==
  {"Event", "OnboardingStateRequest", "OnboardingState",
   "OnboardingSkipOnboarding", "OnboardingRestart",
   "OnboardingCompleteRequest", "OnboardingCompleteResponse",
   "OnboardingWakeUpRequest", "OnboardingWakeUpResponse",
   "OnboardingWakeUpStartedRequest", "OnboardingWakeUpStartedResponse",
   "OnboardingSetPhaseRequest", "OnboardingSetPhaseResponse",
   "OnboardingPhaseProgressRequest", "OnboardingPhaseProgressResponse",
   "OnboardingChargeInfoRequest", "OnboardingChargeInfoResponse",
   "OnboardingMarkCompleteAndExit", "LatestAttentionTransferRequest",
   "LatestAttentionTransfer", "PhotosInfoRequest", "PhotosInfoResponse",
   "PhotoRequest", "PhotoPathMessage", "ThumbnailRequest",
   "ThumbnailPathMessage", "DeletePhotoRequest", "DeletePhotoResponse",
   "PullJdocsRequest", "PullJdocsResponse", "UpdateSettingsRequest",
   "UpdateSettingsResponse", "UpdateAccountSettingsRequest",
   "UpdateAccountSettingsResponse", "UpdateUserEntitlementsRequest",
   "UpdateUserEntitlementsResponse", "DriveOffChargerRequest",
   "DriveOffChargerResponse", "DriveOnChargerRequest",
   "DriveOnChargerResponse", "FindFacesRequest", "FindFacesResponse",
   "LookAroundInPlaceRequest", "LookAroundInPlaceResponse",
   "RollBlockRequest", "RollBlockResponse", "EnrollFaceRequest",
   "EnrollFaceResponse", "SetFaceToEnrollRequest", "SetFaceToEnrollResponse",
   "CancelBehaviorRequest", "CancelBehaviorResponse", "TurnInPlaceRequest",
   "TurnInPlaceResponse", "DriveStraightRequest", "DriveStraightResponse",
   "SetHeadAngleRequest", "SetHeadAngleResponse", "SetLiftHeightRequest",
   "SetLiftHeightResponse", "PlayAnimationRequest", "PlayAnimationResponse",
   "GoToPoseRequest", "GoToPoseResponse", "DockWithCubeRequest",
   "DockWithCubeResponse", "DriveWheelsRequest", "DriveWheelsResponse",
   "ListAnimationsRequest", "ListAnimationsResponse",
   "PlayAnimationTriggerRequest", "ListAnimationTriggersRequest",
   "ListAnimationTriggersResponse", "CancelActionByIdTagRequest",
   "CancelActionByIdTagResponse", "TurnTowardsFaceRequest",
   "TurnTowardsFaceResponse", "GoToObjectRequest", "GoToObjectResponse",
   "RollObjectRequest", "RollObjectResponse", "PopAWheelieRequest",
   "PopAWheelieResponse", "PickupObjectRequest", "PickupObjectResponse",
   "PlaceObjectOnGroundHereRequest", "PlaceObjectOnGroundHereResponse",
   "StopAllMotorsRequest", "StopAllMotorsResponse", "RobotHistoryRequest",
   "RobotHistoryResponse", "ConnectCubeRequest", "ConnectCubeResponse",
   "DisconnectCubeRequest", "FlashCubeLightsRequest",
   "ForgetPreferredCubeRequest", "SetPreferredCubeRequest",
   "SetCubeLightsRequest", "CubesAvailableRequest", "CubesAvailableResponse",
   "BatteryStateRequest", "BatteryStateResponse", "VersionStateRequest",
   "VersionStateResponse", "SayTextRequest", "SayTextResponse",
   "ControlRequest", "ControlRelease", "BehaviorControlResponse",
   "ImageChunk", "EnableMarkerDetectionRequest",
   "EnableMarkerDetectionResponse", "EnableFaceDetectionRequest",
   "EnableFaceDetectionResponse", "EnableMotionDetectionRequest",
   "EnableMotionDetectionResponse", "EnableMirrorModeRequest",
   "EnableMirrorModeResponse", "EnableImageStreamingRequest",
   "EnableImageStreamingResponse", "IsImageStreamingEnabledRequest",
   "IsImageStreamingEnabledResponse", "CheckCloudRequest",
   "CheckCloudResponse", "AudioSendModeRequest", "AudioSendModeChanged",
   "AudioChunk", "FeatureFlagRequest", "FeatureFlagResponse",
   "FeatureFlagListRequest", "FeatureFlagListResponse", "AppDisconnected",
   "AlexaAuthStateRequest", "AlexaAuthStateResponse", "AlexaOptInRequest",
   "AlexaOptInResponse", "SetEyeColorRequest", "SetEyeColorResponse",
   "MasterVolumeRequest", "MasterVolumeResponse", "SetCameraSettingsRequest",
   "SetCameraSettingsResponse", "CameraConfigRequest",
   "CameraConfigResponse", "ExternalAudioStreamPrepare",
   "ExternalAudioStreamChunk", "ExternalAudioStreamCancel",
   "ExternalAudioStreamComplete", "ExternalAudioStreamResponse"}

OneofMarshaler1 ==
  [Event |-> 2, OnboardingStateRequest |-> 3, OnboardingState |-> 4,
   OnboardingSkipOnboarding |-> 5, OnboardingRestart |-> 6,
   OnboardingCompleteRequest |-> 11, OnboardingCompleteResponse |-> 12,
   OnboardingWakeUpRequest |-> 13, OnboardingWakeUpResponse |-> 14,
   OnboardingWakeUpStartedRequest |-> 15,
   OnboardingWakeUpStartedResponse |-> 16, OnboardingSetPhaseRequest |-> 17,
   OnboardingSetPhaseResponse |-> 18, OnboardingPhaseProgressRequest |-> 19,
   OnboardingPhaseProgressResponse |-> 20,
   OnboardingChargeInfoRequest |-> 21, OnboardingChargeInfoResponse |-> 22,
   OnboardingMarkCompleteAndExit |-> 23,
   LatestAttentionTransferRequest |-> 100, LatestAttentionTransfer |-> 101,
   PhotosInfoRequest |-> 200, PhotosInfoResponse |-> 201,
   PhotoRequest |-> 202, PhotoPathMessage |-> 203, ThumbnailRequest |-> 204,
   ThumbnailPathMessage |-> 205, DeletePhotoRequest |-> 206,
   DeletePhotoResponse |-> 207, PullJdocsRequest |-> 300,
   PullJdocsResponse |-> 301]

OneofMarshaler2 ==
  [UpdateSettingsRequest |-> 302, UpdateSettingsResponse |-> 303,
   UpdateAccountSettingsRequest |-> 304,
   UpdateAccountSettingsResponse |-> 305,
   UpdateUserEntitlementsRequest |-> 306,
   UpdateUserEntitlementsResponse |-> 307, DriveOffChargerRequest |-> 400,
   DriveOffChargerResponse |-> 401, DriveOnChargerRequest |-> 402,
   DriveOnChargerResponse |-> 403, FindFacesRequest |-> 404,
   FindFacesResponse |-> 405, LookAroundInPlaceRequest |-> 406,
   LookAroundInPlaceResponse |-> 407, RollBlockRequest |-> 408,
   RollBlockResponse |-> 409, EnrollFaceRequest |-> 410,
   EnrollFaceResponse |-> 411, SetFaceToEnrollRequest |-> 412,
   SetFaceToEnrollResponse |-> 413, CancelBehaviorRequest |-> 414,
   CancelBehaviorResponse |-> 415, TurnInPlaceRequest |-> 500,
   TurnInPlaceResponse |-> 501, DriveStraightRequest |-> 502,
   DriveStraightResponse |-> 503, SetHeadAngleRequest |-> 504,
   SetHeadAngleResponse |-> 505, SetLiftHeightRequest |-> 506,
   SetLiftHeightResponse |-> 507]

OneofMarshaler3 ==
  [PlayAnimationRequest |-> 508, PlayAnimationResponse |-> 509,
   GoToPoseRequest |-> 510, GoToPoseResponse |-> 511,
   DockWithCubeRequest |-> 512, DockWithCubeResponse |-> 513,
   DriveWheelsRequest |-> 514, DriveWheelsResponse |-> 515,
   ListAnimationsRequest |-> 516, ListAnimationsResponse |-> 517,
   PlayAnimationTriggerRequest |-> 518, ListAnimationTriggersRequest |-> 519,
   ListAnimationTriggersResponse |-> 520, CancelActionByIdTagRequest |-> 521,
   CancelActionByIdTagResponse |-> 522, TurnTowardsFaceRequest |-> 523,
   TurnTowardsFaceResponse |-> 524, GoToObjectRequest |-> 525,
   GoToObjectResponse |-> 526, RollObjectRequest |-> 527,
   RollObjectResponse |-> 528, PopAWheelieRequest |-> 529,
   PopAWheelieResponse |-> 530, PickupObjectRequest |-> 531,
   PickupObjectResponse |-> 532, PlaceObjectOnGroundHereRequest |-> 533,
   PlaceObjectOnGroundHereResponse |-> 534, StopAllMotorsRequest |-> 535,
   StopAllMotorsResponse |-> 536, RobotHistoryRequest |-> 600]

OneofMarshaler4 ==
  [RobotHistoryResponse |-> 601, ConnectCubeRequest |-> 700,
   ConnectCubeResponse |-> 701, DisconnectCubeRequest |-> 702,
   FlashCubeLightsRequest |-> 703, ForgetPreferredCubeRequest |-> 704,
   SetPreferredCubeRequest |-> 705, SetCubeLightsRequest |-> 706,
   CubesAvailableRequest |-> 707, CubesAvailableResponse |-> 708,
   BatteryStateRequest |-> 800, BatteryStateResponse |-> 801,
   VersionStateRequest |-> 802, VersionStateResponse |-> 803,
   SayTextRequest |-> 900, SayTextResponse |-> 901, ControlRequest |-> 1000,
   ControlRelease |-> 1001, BehaviorControlResponse |-> 1002,
   ImageChunk |-> 1101, EnableMarkerDetectionRequest |-> 1102,
   EnableMarkerDetectionResponse |-> 1103,
   EnableFaceDetectionRequest |-> 1104, EnableFaceDetectionResponse |-> 1105,
   EnableMotionDetectionRequest |-> 1106,
   EnableMotionDetectionResponse |-> 1107, EnableMirrorModeRequest |-> 1108,
   EnableMirrorModeResponse |-> 1109, EnableImageStreamingRequest |-> 1110,
   EnableImageStreamingResponse |-> 1111]

OneofMarshaler5 ==
  [IsImageStreamingEnabledRequest |-> 1112,
   IsImageStreamingEnabledResponse |-> 1113, CheckCloudRequest |-> 1200,
   CheckCloudResponse |-> 1201, AudioSendModeRequest |-> 1300,
   AudioSendModeChanged |-> 1301, AudioChunk |-> 1302,
   FeatureFlagRequest |-> 1400, FeatureFlagResponse |-> 1401,
   FeatureFlagListRequest |-> 1402, FeatureFlagListResponse |-> 1403,
   AppDisconnected |-> 1500, AlexaAuthStateRequest |-> 1600,
   AlexaAuthStateResponse |-> 1601, AlexaOptInRequest |-> 1602,
   AlexaOptInResponse |-> 1603, SetEyeColorRequest |-> 1700,
   SetEyeColorResponse |-> 1701, MasterVolumeRequest |-> 1702,
   MasterVolumeResponse |-> 1703, SetCameraSettingsRequest |-> 1704,
   SetCameraSettingsResponse |-> 1705, CameraConfigRequest |-> 1706,
   CameraConfigResponse |-> 1707, ExternalAudioStreamPrepare |-> 1800,
   ExternalAudioStreamChunk |-> 1801, ExternalAudioStreamCancel |-> 1802,
   ExternalAudioStreamComplete |-> 1803, ExternalAudioStreamResponse |-> 1804]

OneofMarshaler ==
  OneofMarshaler1 @@ OneofMarshaler2 @@ OneofMarshaler3 @@ OneofMarshaler4
  @@ OneofMarshaler5

OneofUnmarshaler1 ==
  [Event |-> 2, OnboardingStateRequest |-> 3, OnboardingState |-> 4,
   OnboardingSkipOnboarding |-> 5, OnboardingRestart |-> 6,
   OnboardingCompleteRequest |-> 11, OnboardingCompleteResponse |-> 12,
   OnboardingWakeUpRequest |-> 13, OnboardingWakeUpResponse |-> 14,
   OnboardingWakeUpStartedRequest |-> 15,
   OnboardingWakeUpStartedResponse |-> 16, OnboardingSetPhaseRequest |-> 17,
   OnboardingSetPhaseResponse |-> 18, OnboardingPhaseProgressRequest |-> 19,
   OnboardingPhaseProgressResponse |-> 20,
   OnboardingChargeInfoRequest |-> 21, OnboardingChargeInfoResponse |-> 22,
   OnboardingMarkCompleteAndExit |-> 23]

OneofUnmarshaler2 ==
  [LatestAttentionTransferRequest |-> 100, LatestAttentionTransfer |-> 101,
   PhotosInfoRequest |-> 200, PhotosInfoResponse |-> 201,
   PhotoRequest |-> 202, PhotoPathMessage |-> 203, ThumbnailRequest |-> 204,
   ThumbnailPathMessage |-> 205, DeletePhotoRequest |-> 206,
   DeletePhotoResponse |-> 207, PullJdocsRequest |-> 300,
   PullJdocsResponse |-> 301, UpdateSettingsRequest |-> 302,
   UpdateSettingsResponse |-> 303, UpdateAccountSettingsRequest |-> 304,
   UpdateAccountSettingsResponse |-> 305,
   UpdateUserEntitlementsRequest |-> 306,
   UpdateUserEntitlementsResponse |-> 307]

OneofUnmarshaler3 ==
  [DriveOffChargerRequest |-> 400, DriveOffChargerResponse |-> 401,
   DriveOnChargerRequest |-> 402, DriveOnChargerResponse |-> 403,
   FindFacesRequest |-> 404, FindFacesResponse |-> 405,
   LookAroundInPlaceRequest |-> 406, LookAroundInPlaceResponse |-> 407,
   RollBlockRequest |-> 408, RollBlockResponse |-> 409,
   EnrollFaceRequest |-> 410, EnrollFaceResponse |-> 411,
   SetFaceToEnrollRequest |-> 412, SetFaceToEnrollResponse |-> 413,
   CancelBehaviorRequest |-> 414, CancelBehaviorResponse |-> 415,
   TurnInPlaceRequest |-> 500, TurnInPlaceResponse |-> 501]

OneofUnmarshaler4 ==
  [DriveStraightRequest |-> 502, DriveStraightResponse |-> 503,
   SetHeadAngleRequest |-> 504, SetHeadAngleResponse |-> 505,
   SetLiftHeightRequest |-> 506, SetLiftHeightResponse |-> 507,
   PlayAnimationRequest |-> 508, PlayAnimationResponse |-> 509,
   GoToPoseRequest |-> 510, GoToPoseResponse |-> 511,
   DockWithCubeRequest |-> 512, DockWithCubeResponse |-> 513,
   DriveWheelsRequest |-> 514, DriveWheelsResponse |-> 515,
   ListAnimationsRequest |-> 516, ListAnimationsResponse |-> 517,
   PlayAnimationTriggerRequest |-> 518, ListAnimationTriggersRequest |-> 519]

OneofUnmarshaler5 ==
  [ListAnimationTriggersResponse |-> 520, CancelActionByIdTagRequest |-> 521,
   CancelActionByIdTagResponse |-> 522, TurnTowardsFaceRequest |-> 523,
   TurnTowardsFaceResponse |-> 524, GoToObjectRequest |-> 525,
   GoToObjectResponse |-> 526, RollObjectRequest |-> 527,
   RollObjectResponse |-> 528, PopAWheelieRequest |-> 529,
   PopAWheelieResponse |-> 530, PickupObjectRequest |-> 531,
   PickupObjectResponse |-> 532, PlaceObjectOnGroundHereRequest |-> 533,
   PlaceObjectOnGroundHereResponse |-> 534, StopAllMotorsRequest |-> 535,
   StopAllMotorsResponse |-> 536, RobotHistoryRequest |-> 600]

OneofUnmarshaler6 ==
  [RobotHistoryResponse |-> 601, ConnectCubeRequest |-> 700,
   ConnectCubeResponse |-> 701, DisconnectCubeRequest |-> 702,
   FlashCubeLightsRequest |-> 703, ForgetPreferredCubeRequest |-> 704,
   SetPreferredCubeRequest |-> 705, SetCubeLightsRequest |-> 706,
   CubesAvailableRequest |-> 707, CubesAvailableResponse |-> 708,
   BatteryStateRequest |-> 800, BatteryStateResponse |-> 801,
   VersionStateRequest |-> 802, VersionStateResponse |-> 803,
   SayTextRequest |-> 900, SayTextResponse |-> 901, ControlRequest |-> 1000,
   ControlRelease |-> 1001]

OneofUnmarshaler7 ==
  [BehaviorControlResponse |-> 1002, ImageChunk |-> 1101,
   EnableMarkerDetectionRequest |-> 1102,
   EnableMarkerDetectionResponse |-> 1103,
   EnableFaceDetectionRequest |-> 1104, EnableFaceDetectionResponse |-> 1105,
   EnableMotionDetectionRequest |-> 1106,
   EnableMotionDetectionResponse |-> 1107, EnableMirrorModeRequest |-> 1108,
   EnableMirrorModeResponse |-> 1109, EnableImageStreamingRequest |-> 1110,
   EnableImageStreamingResponse |-> 1111,
   IsImageStreamingEnabledRequest |-> 1112,
   IsImageStreamingEnabledResponse |-> 1113, CheckCloudRequest |-> 1200,
   CheckCloudResponse |-> 1201, AudioSendModeRequest |-> 1300,
   AudioSendModeChanged |-> 1301]

OneofUnmarshaler8 ==
  [AudioChunk |-> 1302, FeatureFlagRequest |-> 1400,
   FeatureFlagResponse |-> 1401, FeatureFlagListRequest |-> 1402,
   FeatureFlagListResponse |-> 1403, AppDisconnected |-> 1500,
   AlexaAuthStateRequest |-> 1600, AlexaAuthStateResponse |-> 1601,
   AlexaOptInRequest |-> 1602, AlexaOptInResponse |-> 1603,
   SetEyeColorRequest |-> 1700, SetEyeColorResponse |-> 1701,
   MasterVolumeRequest |-> 1702, MasterVolumeResponse |-> 1703,
   SetCameraSettingsRequest |-> 1704, SetCameraSettingsResponse |-> 1705,
   CameraConfigRequest |-> 1706, CameraConfigResponse |-> 1707]

OneofUnmarshaler9 ==
  [ExternalAudioStreamPrepare |-> 1800, ExternalAudioStreamChunk |-> 1801,
   ExternalAudioStreamCancel |-> 1802, ExternalAudioStreamComplete |-> 1803,
   ExternalAudioStreamResponse |-> 1804]

OneofUnmarshaler ==
  OneofUnmarshaler1 @@ OneofUnmarshaler2 @@ OneofUnmarshaler3
  @@ OneofUnmarshaler4 @@ OneofUnmarshaler5 @@ OneofUnmarshaler6
  @@ OneofUnmarshaler7 @@ OneofUnmarshaler8 @@ OneofUnmarshaler9

OneofSizer1 ==
  [Event |-> 1, OnboardingStateRequest |-> 1, OnboardingState |-> 1,
   OnboardingSkipOnboarding |-> 1, OnboardingRestart |-> 1,
   OnboardingCompleteRequest |-> 1, OnboardingCompleteResponse |-> 1,
   OnboardingWakeUpRequest |-> 1, OnboardingWakeUpResponse |-> 1,
   OnboardingWakeUpStartedRequest |-> 1,
   OnboardingWakeUpStartedResponse |-> 2, OnboardingSetPhaseRequest |-> 2,
   OnboardingSetPhaseResponse |-> 2, OnboardingPhaseProgressRequest |-> 2,
   OnboardingPhaseProgressResponse |-> 2, OnboardingChargeInfoRequest |-> 2,
   OnboardingChargeInfoResponse |-> 2, OnboardingMarkCompleteAndExit |-> 2,
   LatestAttentionTransferRequest |-> 2, LatestAttentionTransfer |-> 2,
   PhotosInfoRequest |-> 2, PhotosInfoResponse |-> 2, PhotoRequest |-> 2,
   PhotoPathMessage |-> 2, ThumbnailRequest |-> 2,
   ThumbnailPathMessage |-> 2, DeletePhotoRequest |-> 2,
   DeletePhotoResponse |-> 2, PullJdocsRequest |-> 2, PullJdocsResponse |-> 2]

OneofSizer2 ==
  [UpdateSettingsRequest |-> 2, UpdateSettingsResponse |-> 2,
   UpdateAccountSettingsRequest |-> 2, UpdateAccountSettingsResponse |-> 2,
   UpdateUserEntitlementsRequest |-> 2, UpdateUserEntitlementsResponse |-> 2,
   DriveOffChargerRequest |-> 2, DriveOffChargerResponse |-> 2,
   DriveOnChargerRequest |-> 2, DriveOnChargerResponse |-> 2,
   FindFacesRequest |-> 2, FindFacesResponse |-> 2,
   LookAroundInPlaceRequest |-> 2, LookAroundInPlaceResponse |-> 2,
   RollBlockRequest |-> 2, RollBlockResponse |-> 2, EnrollFaceRequest |-> 2,
   EnrollFaceResponse |-> 2, SetFaceToEnrollRequest |-> 2,
   SetFaceToEnrollResponse |-> 2, CancelBehaviorRequest |-> 2,
   CancelBehaviorResponse |-> 2, TurnInPlaceRequest |-> 2,
   TurnInPlaceResponse |-> 2, DriveStraightRequest |-> 2,
   DriveStraightResponse |-> 2, SetHeadAngleRequest |-> 2,
   SetHeadAngleResponse |-> 2, SetLiftHeightRequest |-> 2,
   SetLiftHeightResponse |-> 2]

OneofSizer3 ==
  [PlayAnimationRequest |-> 2, PlayAnimationResponse |-> 2,
   GoToPoseRequest |-> 2, GoToPoseResponse |-> 2, DockWithCubeRequest |-> 2,
   DockWithCubeResponse |-> 2, DriveWheelsRequest |-> 2,
   DriveWheelsResponse |-> 2, ListAnimationsRequest |-> 2,
   ListAnimationsResponse |-> 2, PlayAnimationTriggerRequest |-> 2,
   ListAnimationTriggersRequest |-> 2, ListAnimationTriggersResponse |-> 2,
   CancelActionByIdTagRequest |-> 2, CancelActionByIdTagResponse |-> 2,
   TurnTowardsFaceRequest |-> 2, TurnTowardsFaceResponse |-> 2,
   GoToObjectRequest |-> 2, GoToObjectResponse |-> 2,
   RollObjectRequest |-> 2, RollObjectResponse |-> 2,
   PopAWheelieRequest |-> 2, PopAWheelieResponse |-> 2,
   PickupObjectRequest |-> 2, PickupObjectResponse |-> 2,
   PlaceObjectOnGroundHereRequest |-> 2,
   PlaceObjectOnGroundHereResponse |-> 2, StopAllMotorsRequest |-> 2,
   StopAllMotorsResponse |-> 2, RobotHistoryRequest |-> 2]

OneofSizer4 ==
  [RobotHistoryResponse |-> 2, ConnectCubeRequest |-> 2,
   ConnectCubeResponse |-> 2, DisconnectCubeRequest |-> 2,
   FlashCubeLightsRequest |-> 2, ForgetPreferredCubeRequest |-> 2,
   SetPreferredCubeRequest |-> 2, SetCubeLightsRequest |-> 2,
   CubesAvailableRequest |-> 2, CubesAvailableResponse |-> 2,
   BatteryStateRequest |-> 2, BatteryStateResponse |-> 2,
   VersionStateRequest |-> 2, VersionStateResponse |-> 2,
   SayTextRequest |-> 2, SayTextResponse |-> 2, ControlRequest |-> 2,
   ControlRelease |-> 2, BehaviorControlResponse |-> 2, ImageChunk |-> 2,
   EnableMarkerDetectionRequest |-> 2, EnableMarkerDetectionResponse |-> 2,
   EnableFaceDetectionRequest |-> 2, EnableFaceDetectionResponse |-> 2,
   EnableMotionDetectionRequest |-> 2, EnableMotionDetectionResponse |-> 2,
   EnableMirrorModeRequest |-> 2, EnableMirrorModeResponse |-> 2,
   EnableImageStreamingRequest |-> 2, EnableImageStreamingResponse |-> 2]

OneofSizer5 ==
  [IsImageStreamingEnabledRequest |-> 2,
   IsImageStreamingEnabledResponse |-> 2, CheckCloudRequest |-> 2,
   CheckCloudResponse |-> 2, AudioSendModeRequest |-> 2,
   AudioSendModeChanged |-> 2, AudioChunk |-> 2, FeatureFlagRequest |-> 2,
   FeatureFlagResponse |-> 2, FeatureFlagListRequest |-> 2,
   FeatureFlagListResponse |-> 2, AppDisconnected |-> 2,
   AlexaAuthStateRequest |-> 2, AlexaAuthStateResponse |-> 2,
   AlexaOptInRequest |-> 2, AlexaOptInResponse |-> 2,
   SetEyeColorRequest |-> 2, SetEyeColorResponse |-> 2,
   MasterVolumeRequest |-> 2, MasterVolumeResponse |-> 2,
   SetCameraSettingsRequest |-> 2, SetCameraSettingsResponse |-> 2,
   CameraConfigRequest |-> 2, CameraConfigResponse |-> 2,
   ExternalAudioStreamPrepare |-> 2, ExternalAudioStreamChunk |-> 2,
   ExternalAudioStreamCancel |-> 2, ExternalAudioStreamComplete |-> 2,
   ExternalAudioStreamResponse |-> 2]

OneofSizer ==
  OneofSizer1 @@ OneofSizer2 @@ OneofSizer3 @@ OneofSizer4 @@ OneofSizer5

(* The events of an event message: the same functions for its oneof.       *)
Event_Types ==
  [TimeStampedStatus |-> 1, Onboarding |-> 2, WakeWord |-> 3,
   AttentionTransfer |-> 4, RobotObservedFace |-> 5,
   RobotChangedObservedFaceId |-> 6, ObjectEvent |-> 7,
   StimulationInfo |-> 8, PhotoTaken |-> 9, RobotState |-> 10,
   CubeBattery |-> 11, KeepAlive |-> 12, ConnectionResponse |-> 13,
   JdocsChanged |-> 14, AlexaAuthEvent |-> 15, MirrorModeDisabled |-> 16,
   VisionModesAutoDisabled |-> 17, CheckUpdateStatusResponse |-> 18,
   UserIntent |-> 19, RobotObservedMotion |-> 20,
   RobotErasedEnrolledFace |-> 21, RobotRenamedEnrolledFace |-> 22,
   CameraSettingsUpdate |-> 23, UnexpectedMovement |-> 24]

Event_Getters1 ==
  {"TimeStampedStatus", "Onboarding", "WakeWord", "AttentionTransfer",
   "RobotObservedFace", "RobotChangedObservedFaceId", "ObjectEvent",
   "StimulationInfo", "PhotoTaken", "RobotState", "CubeBattery", "KeepAlive",
   "ConnectionResponse", "JdocsChanged", "AlexaAuthEvent",
   "MirrorModeDisabled", "VisionModesAutoDisabled",
   "CheckUpdateStatusResponse", "UserIntent", "RobotObservedMotion",
   "RobotErasedEnrolledFace"}

Event_Getters2 ==
  {"RobotRenamedEnrolledFace", "CameraSettingsUpdate", "UnexpectedMovement"}

Event_Getters ==
  Event_Getters1 \union Event_Getters2

Event_OneofFuncs ==
  {"TimeStampedStatus", "Onboarding", "WakeWord", "AttentionTransfer",
   "RobotObservedFace", "RobotChangedObservedFaceId", "ObjectEvent",
   "StimulationInfo", "PhotoTaken", "RobotState", "CubeBattery", "KeepAlive",
   "ConnectionResponse", "JdocsChanged", "AlexaAuthEvent",
   "MirrorModeDisabled", "VisionModesAutoDisabled",
   "CheckUpdateStatusResponse", "UserIntent", "RobotObservedMotion",
   "RobotErasedEnrolledFace", "RobotRenamedEnrolledFace",
   "CameraSettingsUpdate", "UnexpectedMovement"}

Event_OneofMarshaler ==
  [TimeStampedStatus |-> 1, Onboarding |-> 2, WakeWord |-> 3,
   AttentionTransfer |-> 4, RobotObservedFace |-> 5,
   RobotChangedObservedFaceId |-> 6, ObjectEvent |-> 7,
   StimulationInfo |-> 8, PhotoTaken |-> 9, RobotState |-> 10,
   CubeBattery |-> 11, KeepAlive |-> 12, ConnectionResponse |-> 13,
   JdocsChanged |-> 14, AlexaAuthEvent |-> 15, MirrorModeDisabled |-> 16,
   VisionModesAutoDisabled |-> 17, CheckUpdateStatusResponse |-> 18,
   UserIntent |-> 19, RobotObservedMotion |-> 20,
   RobotErasedEnrolledFace |-> 21, RobotRenamedEnrolledFace |-> 22,
   CameraSettingsUpdate |-> 23, UnexpectedMovement |-> 24]

Event_OneofUnmarshaler1 ==
  [TimeStampedStatus |-> 1, Onboarding |-> 2, WakeWord |-> 3,
   AttentionTransfer |-> 4, RobotObservedFace |-> 5,
   RobotChangedObservedFaceId |-> 6, ObjectEvent |-> 7,
   StimulationInfo |-> 8, PhotoTaken |-> 9, RobotState |-> 10,
   CubeBattery |-> 11, KeepAlive |-> 12, ConnectionResponse |-> 13,
   JdocsChanged |-> 14, AlexaAuthEvent |-> 15, MirrorModeDisabled |-> 16,
   VisionModesAutoDisabled |-> 17, CheckUpdateStatusResponse |-> 18]

Event_OneofUnmarshaler2 ==
  [UserIntent |-> 19, RobotObservedMotion |-> 20,
   RobotErasedEnrolledFace |-> 21, RobotRenamedEnrolledFace |-> 22,
   CameraSettingsUpdate |-> 23, UnexpectedMovement |-> 24]

Event_OneofUnmarshaler ==
  Event_OneofUnmarshaler1 @@ Event_OneofUnmarshaler2

Event_OneofSizer ==
  [TimeStampedStatus |-> 1, Onboarding |-> 1, WakeWord |-> 1,
   AttentionTransfer |-> 1, RobotObservedFace |-> 1,
   RobotChangedObservedFaceId |-> 1, ObjectEvent |-> 1,
   StimulationInfo |-> 1, PhotoTaken |-> 1, RobotState |-> 1,
   CubeBattery |-> 1, KeepAlive |-> 1, ConnectionResponse |-> 1,
   JdocsChanged |-> 1, AlexaAuthEvent |-> 1, MirrorModeDisabled |-> 2,
   VisionModesAutoDisabled |-> 2, CheckUpdateStatusResponse |-> 2,
   UserIntent |-> 2, RobotObservedMotion |-> 2,
   RobotErasedEnrolledFace |-> 2, RobotRenamedEnrolledFace |-> 2,
   CameraSettingsUpdate |-> 2, UnexpectedMovement |-> 2]
=============================================================================
