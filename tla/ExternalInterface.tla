------------------------- MODULE ExternalInterface --------------------------
(* The gRPC service of vic-gateway and the HTTP routes in front of it, as   *)
(* the generated code states them, one table per generated function or      *)
(* variable. A stub, a handler and a route use their own name throughout;   *)
(* EventStream_1 is the second route to EventStream.                        *)
EXTENDS Naturals, Sequences, TLC

(* The client stubs: grpc.Invoke of the method, or a stream described by   *)
(* the n-th entry of Streams, counted from 0.                             *)
Invoke == [stream |-> FALSE, at |-> 0]
NewClientStream(n) == [stream |-> TRUE, at |-> n]

client1 ==
  [ProtocolVersion |-> Invoke, SDKInitialization |-> Invoke,
   DriveWheels |-> Invoke, PlayAnimationTrigger |-> Invoke,
   PlayAnimation |-> Invoke, ListAnimations |-> Invoke,
   ListAnimationTriggers |-> Invoke, MoveHead |-> Invoke,
   MoveLift |-> Invoke, StopAllMotors |-> Invoke,
   DisplayFaceImageRGB |-> Invoke, EventStream |-> NewClientStream(0)]

client2 ==
  [ExternalAudioStreamPlayback |-> NewClientStream(1),
   BehaviorControl |-> NewClientStream(2), CancelFaceEnrollment |-> Invoke,
   RequestEnrolledNames |-> Invoke, UpdateEnrolledFaceByID |-> Invoke,
   EraseEnrolledFaceByID |-> Invoke, EraseAllEnrolledFaces |-> Invoke,
   SetFaceToEnroll |-> Invoke, EnrollFace |-> Invoke,
   EnableMarkerDetection |-> Invoke, EnableFaceDetection |-> Invoke]

client3 ==
  [EnableMotionDetection |-> Invoke, EnableMirrorMode |-> Invoke,
   EnableImageStreaming |-> Invoke, IsImageStreamingEnabled |-> Invoke,
   CancelActionByIdTag |-> Invoke, CancelBehavior |-> Invoke,
   GoToPose |-> Invoke, DockWithCube |-> Invoke, DriveOffCharger |-> Invoke,
   DriveOnCharger |-> Invoke, FindFaces |-> Invoke,
   LookAroundInPlace |-> Invoke, RollBlock |-> Invoke, PhotosInfo |-> Invoke,
   Photo |-> Invoke, Thumbnail |-> Invoke]

client4 ==
  [DeletePhoto |-> Invoke, DriveStraight |-> Invoke, TurnInPlace |-> Invoke,
   SetHeadAngle |-> Invoke, SetLiftHeight |-> Invoke,
   TurnTowardsFace |-> Invoke, GoToObject |-> Invoke, RollObject |-> Invoke,
   PopAWheelie |-> Invoke, PickupObject |-> Invoke,
   PlaceObjectOnGroundHere |-> Invoke, SetMasterVolume |-> Invoke,
   UserAuthentication |-> Invoke, BatteryState |-> Invoke,
   VersionState |-> Invoke, SayText |-> Invoke]

client5 ==
  [ConnectCube |-> Invoke, DisconnectCube |-> Invoke,
   CubesAvailable |-> Invoke, FlashCubeLights |-> Invoke,
   ForgetPreferredCube |-> Invoke, SetPreferredCube |-> Invoke,
   DeleteCustomObjects |-> Invoke, CreateFixedCustomObject |-> Invoke,
   DefineCustomObject |-> Invoke, SetCubeLights |-> Invoke,
   AudioFeed |-> NewClientStream(3)]

client6 ==
  [CameraFeed |-> NewClientStream(4), CaptureSingleImage |-> Invoke,
   GetCameraConfig |-> Invoke, SetEyeColor |-> Invoke,
   NavMapFeed |-> NewClientStream(5), SetCameraSettings |-> Invoke,
   AppIntent |-> Invoke, GetOnboardingState |-> Invoke,
   SendOnboardingInput |-> Invoke, GetLatestAttentionTransfer |-> Invoke,
   PullJdocs |-> Invoke]

client7 ==
  [UpdateSettings |-> Invoke, UpdateAccountSettings |-> Invoke,
   UpdateUserEntitlements |-> Invoke, StartUpdateEngine |-> Invoke,
   CheckUpdateStatus |-> Invoke, UpdateAndRestart |-> Invoke,
   UploadDebugLogs |-> Invoke, CheckCloudConnection |-> Invoke,
   GetFeatureFlag |-> Invoke, GetFeatureFlagList |-> Invoke,
   GetAlexaAuthState |-> Invoke, AlexaOptIn |-> Invoke,
   AssumeBehaviorControl |-> NewClientStream(6)]

client ==
  client1 @@ client2 @@ client3 @@ client4 @@ client5 @@ client6 @@ client7

(* The server side: a handler decodes the request, or takes the stream,    *)
(* and calls the method of rpcService.                                     *)

server1 ==
  [ProtocolVersion |-> "unary", SDKInitialization |-> "unary",
   DriveWheels |-> "unary", PlayAnimationTrigger |-> "unary",
   PlayAnimation |-> "unary", ListAnimations |-> "unary",
   ListAnimationTriggers |-> "unary", MoveHead |-> "unary"]

server2 ==
  [MoveLift |-> "unary", StopAllMotors |-> "unary",
   DisplayFaceImageRGB |-> "unary", EventStream |-> "feed",
   ExternalAudioStreamPlayback |-> "duplex", BehaviorControl |-> "duplex",
   CancelFaceEnrollment |-> "unary"]

server3 ==
  [RequestEnrolledNames |-> "unary", UpdateEnrolledFaceByID |-> "unary",
   EraseEnrolledFaceByID |-> "unary", EraseAllEnrolledFaces |-> "unary",
   SetFaceToEnroll |-> "unary", EnrollFace |-> "unary",
   EnableMarkerDetection |-> "unary", EnableFaceDetection |-> "unary"]

server4 ==
  [EnableMotionDetection |-> "unary", EnableMirrorMode |-> "unary",
   EnableImageStreaming |-> "unary", IsImageStreamingEnabled |-> "unary",
   CancelActionByIdTag |-> "unary", CancelBehavior |-> "unary",
   GoToPose |-> "unary", DockWithCube |-> "unary"]

server5 ==
  [DriveOffCharger |-> "unary", DriveOnCharger |-> "unary",
   FindFaces |-> "unary", LookAroundInPlace |-> "unary",
   RollBlock |-> "unary", PhotosInfo |-> "unary", Photo |-> "unary",
   Thumbnail |-> "unary"]

server6 ==
  [DeletePhoto |-> "unary", DriveStraight |-> "unary",
   TurnInPlace |-> "unary", SetHeadAngle |-> "unary",
   SetLiftHeight |-> "unary", TurnTowardsFace |-> "unary",
   GoToObject |-> "unary", RollObject |-> "unary"]

server7 ==
  [PopAWheelie |-> "unary", PickupObject |-> "unary",
   PlaceObjectOnGroundHere |-> "unary", SetMasterVolume |-> "unary",
   UserAuthentication |-> "unary", BatteryState |-> "unary",
   VersionState |-> "unary", SayText |-> "unary"]

server8 ==
  [ConnectCube |-> "unary", DisconnectCube |-> "unary",
   CubesAvailable |-> "unary", FlashCubeLights |-> "unary",
   ForgetPreferredCube |-> "unary", SetPreferredCube |-> "unary",
   DeleteCustomObjects |-> "unary", CreateFixedCustomObject |-> "unary"]

server9 ==
  [DefineCustomObject |-> "unary", SetCubeLights |-> "unary",
   AudioFeed |-> "feed", CameraFeed |-> "feed",
   CaptureSingleImage |-> "unary", GetCameraConfig |-> "unary",
   SetEyeColor |-> "unary"]

server10 ==
  [NavMapFeed |-> "feed", SetCameraSettings |-> "unary",
   AppIntent |-> "unary", GetOnboardingState |-> "unary",
   SendOnboardingInput |-> "unary", GetLatestAttentionTransfer |-> "unary",
   PullJdocs |-> "unary", UpdateSettings |-> "unary"]

server11 ==
  [UpdateAccountSettings |-> "unary", UpdateUserEntitlements |-> "unary",
   StartUpdateEngine |-> "unary", CheckUpdateStatus |-> "unary",
   UpdateAndRestart |-> "unary", UploadDebugLogs |-> "unary",
   CheckCloudConnection |-> "unary", GetFeatureFlag |-> "unary"]

server12 ==
  [GetFeatureFlagList |-> "unary", GetAlexaAuthState |-> "unary",
   AlexaOptIn |-> "unary", AssumeBehaviorControl |-> "feed"]

server ==
  server1 @@ server2 @@ server3 @@ server4 @@ server5 @@ server6 @@ server7
  @@ server8 @@ server9 @@ server10 @@ server11 @@ server12

(* serviceDesc: the methods, and the streams in their order.               *)
StreamDesc(name, ss, cs) ==
  [name |-> name, ServerStreams |-> ss, ClientStreams |-> cs]

Methods1 ==
  {"ProtocolVersion", "SDKInitialization", "DriveWheels",
   "PlayAnimationTrigger", "PlayAnimation", "ListAnimations",
   "ListAnimationTriggers", "MoveHead", "MoveLift", "StopAllMotors",
   "DisplayFaceImageRGB", "CancelFaceEnrollment", "RequestEnrolledNames",
   "UpdateEnrolledFaceByID", "EraseEnrolledFaceByID",
   "EraseAllEnrolledFaces", "SetFaceToEnroll", "EnrollFace",
   "EnableMarkerDetection", "EnableFaceDetection", "EnableMotionDetection",
   "EnableMirrorMode", "EnableImageStreaming", "IsImageStreamingEnabled",
   "CancelActionByIdTag", "CancelBehavior", "GoToPose", "DockWithCube",
   "DriveOffCharger", "DriveOnCharger", "FindFaces", "LookAroundInPlace",
   "RollBlock", "PhotosInfo", "Photo", "Thumbnail", "DeletePhoto"}

Methods2 ==
  {"DriveStraight", "TurnInPlace", "SetHeadAngle", "SetLiftHeight",
   "TurnTowardsFace", "GoToObject", "RollObject", "PopAWheelie",
   "PickupObject", "PlaceObjectOnGroundHere", "SetMasterVolume",
   "UserAuthentication", "BatteryState", "VersionState", "SayText",
   "ConnectCube", "DisconnectCube", "CubesAvailable", "FlashCubeLights",
   "ForgetPreferredCube", "SetPreferredCube", "DeleteCustomObjects",
   "CreateFixedCustomObject", "DefineCustomObject", "SetCubeLights",
   "CaptureSingleImage", "GetCameraConfig", "SetEyeColor",
   "SetCameraSettings", "AppIntent", "GetOnboardingState",
   "SendOnboardingInput", "GetLatestAttentionTransfer", "PullJdocs",
   "UpdateSettings", "UpdateAccountSettings", "UpdateUserEntitlements"}

Methods3 ==
  {"StartUpdateEngine", "CheckUpdateStatus", "UpdateAndRestart",
   "UploadDebugLogs", "CheckCloudConnection", "GetFeatureFlag",
   "GetFeatureFlagList", "GetAlexaAuthState", "AlexaOptIn"}

Methods ==
  Methods1 \union Methods2 \union Methods3

Streams ==
  <<StreamDesc("EventStream", TRUE, FALSE),
    StreamDesc("ExternalAudioStreamPlayback", TRUE, TRUE),
    StreamDesc("BehaviorControl", TRUE, TRUE),
    StreamDesc("AudioFeed", TRUE, FALSE),
    StreamDesc("CameraFeed", TRUE, FALSE),
    StreamDesc("NavMapFeed", TRUE, FALSE),
    StreamDesc("AssumeBehaviorControl", TRUE, FALSE)>>

(* The gateway: where a request comes from and whether its answer is a     *)
(* message or a stream.                                                    *)

request1 ==
  [ProtocolVersion |-> "message", SDKInitialization |-> "message",
   ListAnimations |-> "message", ListAnimationTriggers |-> "message",
   DisplayFaceImageRGB |-> "message", EventStream |-> "stream",
   EventStream_1 |-> "query", CancelFaceEnrollment |-> "message",
   RequestEnrolledNames |-> "message", UpdateEnrolledFaceByID |-> "message"]

request2 ==
  [EraseEnrolledFaceByID |-> "message", EraseAllEnrolledFaces |-> "message",
   SetFaceToEnroll |-> "message", EnrollFace |-> "message",
   EnableMarkerDetection |-> "message", EnableFaceDetection |-> "message",
   EnableMotionDetection |-> "message", EnableMirrorMode |-> "message",
   EnableImageStreaming |-> "message", IsImageStreamingEnabled |-> "message",
   CancelActionByIdTag |-> "message"]

request3 ==
  [CancelBehavior |-> "message", GoToPose |-> "message",
   DockWithCube |-> "message", DriveOffCharger |-> "message",
   DriveOnCharger |-> "message", FindFaces |-> "message",
   LookAroundInPlace |-> "message", RollBlock |-> "message",
   PhotosInfo |-> "message", Photo |-> "message", Thumbnail |-> "message"]

request4 ==
  [DeletePhoto |-> "message", UserAuthentication |-> "message",
   BatteryState |-> "message", VersionState |-> "message",
   SayText |-> "message", ConnectCube |-> "message",
   DisconnectCube |-> "message", CubesAvailable |-> "message",
   FlashCubeLights |-> "message", ForgetPreferredCube |-> "message",
   SetPreferredCube |-> "message"]

request5 ==
  [DeleteCustomObjects |-> "message", CreateFixedCustomObject |-> "message",
   DefineCustomObject |-> "message", AudioFeed |-> "stream",
   CameraFeed |-> "stream", CaptureSingleImage |-> "message",
   GetCameraConfig |-> "message", SetEyeColor |-> "message",
   NavMapFeed |-> "stream"]

request6 ==
  [SetCameraSettings |-> "message", AppIntent |-> "message",
   GetOnboardingState |-> "message", SendOnboardingInput |-> "message",
   GetLatestAttentionTransfer |-> "message", PullJdocs |-> "message",
   UpdateSettings |-> "message", UpdateAccountSettings |-> "message",
   UpdateUserEntitlements |-> "message", StartUpdateEngine |-> "message",
   CheckUpdateStatus |-> "message"]

request7 ==
  [UpdateAndRestart |-> "message", UploadDebugLogs |-> "message",
   CheckCloudConnection |-> "message", GetFeatureFlag |-> "message",
   GetFeatureFlagList |-> "message", GetAlexaAuthState |-> "message",
   AlexaOptIn |-> "message", AssumeBehaviorControl |-> "stream"]

request ==
  request1 @@ request2 @@ request3 @@ request4 @@ request5 @@ request6
  @@ request7

(* mux.Handle(method, pattern, handler); a later one is found first. The   *)
(* handler calls request_ and forward_ of its name, a Recv handler with    *)
(* the stream's Recv.                                                      *)
POST(name) == [method |-> "POST", name |-> name, recv |-> FALSE]
Recv(method, name) == [method |-> method, name |-> name, recv |-> TRUE]

Handle1 ==
  <<POST("ProtocolVersion"), POST("SDKInitialization"),
   POST("ListAnimations"), POST("ListAnimationTriggers"),
   POST("DisplayFaceImageRGB")>>

Handle2 ==
  <<Recv("POST", "EventStream"), Recv("GET", "EventStream_1"),
   POST("CancelFaceEnrollment"), POST("RequestEnrolledNames"),
   POST("UpdateEnrolledFaceByID")>>

Handle3 ==
  <<POST("EraseEnrolledFaceByID"), POST("EraseAllEnrolledFaces"),
   POST("SetFaceToEnroll"), POST("EnrollFace"), POST("EnableMarkerDetection")>>

Handle4 ==
  <<POST("EnableFaceDetection"), POST("EnableMotionDetection"),
   POST("EnableMirrorMode"), POST("EnableImageStreaming"),
   POST("IsImageStreamingEnabled")>>

Handle5 ==
  <<POST("CancelActionByIdTag"), POST("CancelBehavior"), POST("GoToPose"),
   POST("DockWithCube"), POST("DriveOffCharger")>>

Handle6 ==
  <<POST("DriveOnCharger"), POST("FindFaces"), POST("LookAroundInPlace"),
   POST("RollBlock"), POST("PhotosInfo")>>

Handle7 ==
  <<POST("Photo"), POST("Thumbnail"), POST("DeletePhoto"),
   POST("UserAuthentication"), POST("BatteryState")>>

Handle8 ==
  <<POST("VersionState"), POST("SayText"), POST("ConnectCube"),
   POST("DisconnectCube"), POST("CubesAvailable")>>

Handle9 ==
  <<POST("FlashCubeLights"), POST("ForgetPreferredCube"),
   POST("SetPreferredCube"), POST("DeleteCustomObjects"),
   POST("CreateFixedCustomObject")>>

Handle10 ==
  <<POST("DefineCustomObject"), Recv("POST", "AudioFeed"),
   Recv("POST", "CameraFeed"), POST("CaptureSingleImage"),
   POST("GetCameraConfig")>>

Handle11 ==
  <<POST("SetEyeColor"), Recv("POST", "NavMapFeed"),
   POST("SetCameraSettings"), POST("AppIntent"), POST("GetOnboardingState")>>

Handle12 ==
  <<POST("SendOnboardingInput"), POST("GetLatestAttentionTransfer"),
   POST("PullJdocs"), POST("UpdateSettings"), POST("UpdateAccountSettings")>>

Handle13 ==
  <<POST("UpdateUserEntitlements"), POST("StartUpdateEngine"),
   POST("CheckUpdateStatus"), POST("UpdateAndRestart"),
   POST("UploadDebugLogs")>>

Handle14 ==
  <<POST("CheckCloudConnection"), POST("GetFeatureFlag"),
   POST("GetFeatureFlagList"), POST("GetAlexaAuthState"), POST("AlexaOptIn")>>

Handle15 ==
  <<Recv("POST", "AssumeBehaviorControl")>>

Handle ==
  Handle1 \o Handle2 \o Handle3 \o Handle4 \o Handle5 \o Handle6 \o Handle7
  \o Handle8 \o Handle9 \o Handle10 \o Handle11 \o Handle12 \o Handle13
  \o Handle14 \o Handle15

(* The paths, all below v1.                                                *)

pattern ==
  [ProtocolVersion |-> "protocol_version",
   SDKInitialization |-> "sdk_initialization",
   ListAnimations |-> "list_animations",
   ListAnimationTriggers |-> "list_animation_triggers",
   DisplayFaceImageRGB |-> "display_face_image_rgb",
   EventStream |-> "event_stream", EventStream_1 |-> "event_stream",
   CancelFaceEnrollment |-> "cancel_face_enrollment",
   RequestEnrolledNames |-> "request_enrolled_names",
   UpdateEnrolledFaceByID |-> "update_enrolled_face_by_id",
   EraseEnrolledFaceByID |-> "erase_enrolled_face_by_id",
   EraseAllEnrolledFaces |-> "erase_all_enrolled_faces",
   SetFaceToEnroll |-> "set_face_to_enroll", EnrollFace |-> "enroll_face",
   EnableMarkerDetection |-> "enable_marker_detection",
   EnableFaceDetection |-> "enable_face_detection",
   EnableMotionDetection |-> "enable_motion_detection",
   EnableMirrorMode |-> "enable_mirror_mode",
   EnableImageStreaming |-> "enable_image_streaming",
   IsImageStreamingEnabled |-> "is_image_streaming_enabled",
   CancelActionByIdTag |-> "cancel_action_by_id_tag",
   CancelBehavior |-> "cancel_behavior", GoToPose |-> "go_to_pose",
   DockWithCube |-> "dock_with_cube",
   DriveOffCharger |-> "drive_off_charger",
   DriveOnCharger |-> "drive_on_charger", FindFaces |-> "find_faces",
   LookAroundInPlace |-> "look_around_in_place", RollBlock |-> "roll_block",
   PhotosInfo |-> "photos_info", Photo |-> "photo",
   Thumbnail |-> "thumbnail", DeletePhoto |-> "delete_photo",
   UserAuthentication |-> "user_authentication",
   BatteryState |-> "battery_state", VersionState |-> "version_state",
   SayText |-> "say_text", ConnectCube |-> "connect_cube",
   DisconnectCube |-> "disconnect_cube",
   CubesAvailable |-> "cubes_available",
   FlashCubeLights |-> "flash_cube_lights",
   ForgetPreferredCube |-> "forget_preferred_cube",
   SetPreferredCube |-> "set_preferred_cube",
   DeleteCustomObjects |-> "delete_custom_objects",
   CreateFixedCustomObject |-> "create_fixed_custom_object",
   DefineCustomObject |-> "define_custom_object", AudioFeed |-> "audio_feed",
   CameraFeed |-> "camera_feed",
   CaptureSingleImage |-> "capture_single_image",
   GetCameraConfig |-> "get_camera_config", SetEyeColor |-> "set_eye_color",
   NavMapFeed |-> "nav_map_feed",
   SetCameraSettings |-> "set_camera_settings", AppIntent |-> "app_intent",
   GetOnboardingState |-> "get_onboarding_state",
   SendOnboardingInput |-> "send_onboarding_input",
   GetLatestAttentionTransfer |-> "get_latest_attention_transfer",
   PullJdocs |-> "pull_jdocs", UpdateSettings |-> "update_settings",
   UpdateAccountSettings |-> "update_account_settings",
   UpdateUserEntitlements |-> "update_user_entitlements",
   StartUpdateEngine |-> "start_update_engine",
   CheckUpdateStatus |-> "check_update_status",
   UpdateAndRestart |-> "update_and_restart",
   UploadDebugLogs |-> "upload_debug_logs",
   CheckCloudConnection |-> "check_cloud_connection",
   GetFeatureFlag |-> "feature_flag",
   GetFeatureFlagList |-> "feature_flag_list",
   GetAlexaAuthState |-> "alexa_auth_state", AlexaOptIn |-> "alexa_opt_in",
   AssumeBehaviorControl |-> "assume_behavior_control"]

forward ==
  [ProtocolVersion |-> "message", SDKInitialization |-> "message",
   ListAnimations |-> "message", ListAnimationTriggers |-> "message",
   DisplayFaceImageRGB |-> "message", EventStream |-> "stream",
   EventStream_1 |-> "stream", CancelFaceEnrollment |-> "message",
   RequestEnrolledNames |-> "message", UpdateEnrolledFaceByID |-> "message",
   EraseEnrolledFaceByID |-> "message", EraseAllEnrolledFaces |-> "message",
   SetFaceToEnroll |-> "message", EnrollFace |-> "message",
   EnableMarkerDetection |-> "message", EnableFaceDetection |-> "message",
   EnableMotionDetection |-> "message", EnableMirrorMode |-> "message",
   EnableImageStreaming |-> "message", IsImageStreamingEnabled |-> "message",
   CancelActionByIdTag |-> "message", CancelBehavior |-> "message",
   GoToPose |-> "message", DockWithCube |-> "message",
   DriveOffCharger |-> "message", DriveOnCharger |-> "message",
   FindFaces |-> "message", LookAroundInPlace |-> "message",
   RollBlock |-> "message", PhotosInfo |-> "message", Photo |-> "message",
   Thumbnail |-> "message", DeletePhoto |-> "message",
   UserAuthentication |-> "message", BatteryState |-> "message",
   VersionState |-> "message", SayText |-> "message",
   ConnectCube |-> "message", DisconnectCube |-> "message",
   CubesAvailable |-> "message", FlashCubeLights |-> "message",
   ForgetPreferredCube |-> "message", SetPreferredCube |-> "message",
   DeleteCustomObjects |-> "message", CreateFixedCustomObject |-> "message",
   DefineCustomObject |-> "message", AudioFeed |-> "stream",
   CameraFeed |-> "stream", CaptureSingleImage |-> "message",
   GetCameraConfig |-> "message", SetEyeColor |-> "message",
   NavMapFeed |-> "stream", SetCameraSettings |-> "message",
   AppIntent |-> "message", GetOnboardingState |-> "message",
   SendOnboardingInput |-> "message",
   GetLatestAttentionTransfer |-> "message", PullJdocs |-> "message",
   UpdateSettings |-> "message", UpdateAccountSettings |-> "message",
   UpdateUserEntitlements |-> "message", StartUpdateEngine |-> "message",
   CheckUpdateStatus |-> "message", UpdateAndRestart |-> "message",
   UploadDebugLogs |-> "message", CheckCloudConnection |-> "message",
   GetFeatureFlag |-> "message", GetFeatureFlagList |-> "message",
   GetAlexaAuthState |-> "message", AlexaOptIn |-> "message",
   AssumeBehaviorControl |-> "stream"]
=============================================================================
