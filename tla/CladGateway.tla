--------------------------- MODULE CladGateway ------------------------------
(* The CLAD messages of package gateway: what the gateway exchanges with   *)
(* vic-engine (MessageRobotToExternal, MessageExternalToRobot) and with    *)
(* vic-switchboard. A structure is the sequence of its fields, in the order *)
(* in which Size, Pack and Unpack go through them; a union is its tags, the *)
(* type unpackStruct makes for a tag and the type Get and Set have for a   *)
(* member. Names of fields and String are left out. The tokens come from   *)
(* package cloud, as in the source.                                        *)
EXTENDS CladCloud

PoseStruct3d ==
  Struct("PoseStruct3d", <<Num(F32, 4), Num(F32, 4), Num(F32, 4),
   Num(F32, 4), Num(F32, 4), Num(F32, 4), Num(F32, 4), Num(U32, 4)>>)

ObjectType == Enum(I32, (0..5) \union (14..34))

UiDeviceConnected == Struct("UiDeviceConnected", <<Str(U8, 1, 255)>>)

AnimationCompleted == Struct("AnimationCompleted", <<Str(U8, 1, 255)>>)

ActionCompletedUnionTag ==
  [AnimationCompleted |-> 1]

ActionCompletedUnion_unpackStruct ==
  [AnimationCompleted |-> AnimationCompleted]

ActionCompletedUnion_members ==
  [AnimationCompleted |-> AnimationCompleted]

ActionCompletedUnion ==
  Union("ActionCompletedUnion", ActionCompletedUnionTag, ActionCompletedUnion_unpackStruct,
        ActionCompletedUnion_members)

RobotActionType == Enum(I32, {-1})

ActionResult == Enum(U32, {0, 16777216, 33554432})

ObjectFamily == Enum(I32, (-1..3) \union {6})

ActiveAccel ==
  Struct("ActiveAccel", <<Num(F32, 4), Num(F32, 4), Num(F32, 4)>>)

UpAxis == Enum(U8, (0..7))

ObjectConnectionState ==
  Struct("ObjectConnectionState", <<Num(U32, 4), Str(U8, 1, 255),
   Num(ObjectType, 4), Flag(1)>>)

ObjectMoved == Struct("ObjectMoved", <<Num(U32, 4), Num(U32, 4)>>)

ObjectAvailable ==
  Struct("ObjectAvailable", <<Str(U8, 1, 255), Num(ObjectType, 4),
   Num(I8, 1)>>)

ObjectStoppedMoving ==
  Struct("ObjectStoppedMoving", <<Num(U32, 4), Num(U32, 4)>>)

ObjectUpAxisChanged ==
  Struct("ObjectUpAxisChanged", <<Num(U32, 4), Num(U32, 4), Num(UpAxis, 1)>>)

ObjectTapped == Struct("ObjectTapped", <<Num(U32, 4), Num(U32, 4)>>)

ObjectAccel ==
  Struct("ObjectAccel", <<Num(U32, 4), Num(U32, 4), Sub(ActiveAccel)>>)

RobotCompletedAction ==
  Struct("RobotCompletedAction", <<Num(U32, 4), Num(RobotActionType, 4),
   Num(ActionResult, 4), Arr(U8, 1, 255, Num(ActionResult, 4), 4),
   Una(ActionCompletedUnion)>>)

LoadedKnownFace ==
  Struct("LoadedKnownFace", <<Num(I64, 8), Num(I64, 8), Num(I64, 8),
   Num(I64, 8), Num(I32, 4), Str(U8, 1, 255)>>)

EnrolledNamesResponse ==
  Struct("EnrolledNamesResponse", <<
   Loop(U8, 1, 255, Sub(LoadedKnownFace))>>)

AccelData == Struct("AccelData", <<Num(F32, 4), Num(F32, 4), Num(F32, 4)>>)

GyroData == Struct("GyroData", <<Num(F32, 4), Num(F32, 4), Num(F32, 4)>>)

CladPoint2d == Struct("CladPoint2d", <<Num(F32, 4), Num(F32, 4)>>)

CladRect ==
  Struct("CladRect", <<Num(F32, 4), Num(F32, 4), Num(F32, 4), Num(F32, 4)>>)

FacialExpression == Enum(I8, (-1..5))

SmileAmount == Struct("SmileAmount", <<Flag(1), Num(F32, 4), Num(F32, 4)>>)

Gaze == Struct("Gaze", <<Flag(1), Num(F32, 4), Num(F32, 4)>>)

BlinkAmount == Struct("BlinkAmount", <<Flag(1), Num(F32, 4), Num(F32, 4)>>)

RobotObservedObject ==
  Struct("RobotObservedObject", <<Num(U32, 4), Num(ObjectFamily, 4),
   Num(ObjectType, 4), Num(I32, 4), Sub(CladRect), Sub(PoseStruct3d),
   Num(F32, 4), Num(U8, 1)>>)

RobotObservedPossibleObject ==
  Struct("RobotObservedPossibleObject", <<Sub(RobotObservedObject)>>)

RobotObservedFace ==
  Struct("RobotObservedFace", <<Num(I32, 4), Num(U32, 4), Sub(PoseStruct3d),
   Sub(CladRect), Str(U8, 1, 255), Num(FacialExpression, 1),
   Sub(SmileAmount), Sub(Gaze), Sub(BlinkAmount),
   Arr(U8, 1, 255, Num(U8, 1), 1), Arr(U8, 1, 255, Sub(CladPoint2d), 8),
   Arr(U8, 1, 255, Sub(CladPoint2d), 8),
   Arr(U8, 1, 255, Sub(CladPoint2d), 8),
   Arr(U8, 1, 255, Sub(CladPoint2d), 8)>>)

RobotChangedObservedFaceID ==
  Struct("RobotChangedObservedFaceID", <<Num(I32, 4), Num(I32, 4)>>)

RequiredEmptyMessage == Struct("RequiredEmptyMessage", <<>>)

EventTag ==
  [ReplaceMe |-> 0]

Event_unpackStruct ==
  [ReplaceMe |-> RequiredEmptyMessage]

Event_members ==
  [ReplaceMe |-> RequiredEmptyMessage]

Event ==
  Union("Event", EventTag, Event_unpackStruct,
        Event_members)

RobotDeletedFixedCustomObjects ==
  Struct("RobotDeletedFixedCustomObjects", <<>>)

RobotDeletedCustomMarkerObjects ==
  Struct("RobotDeletedCustomMarkerObjects", <<>>)

CreatedFixedCustomObject ==
  Struct("CreatedFixedCustomObject", <<Num(U32, 4)>>)

DefinedCustomObject == Struct("DefinedCustomObject", <<Flag(1)>>)

ENodeContentTypeEnum == Enum(U8, (0..9))

MemoryMapQuadInfo ==
  Struct("MemoryMapQuadInfo", <<Num(ENodeContentTypeEnum, 1), Num(U8, 1),
   Num(U32, 4)>>)

MemoryMapMessageBegin ==
  Struct("MemoryMapMessageBegin", <<Num(U32, 4), Num(I32, 4), Num(F32, 4),
   Num(F32, 4), Num(F32, 4)>>)

MemoryMapMessage ==
  Struct("MemoryMapMessage", <<
   Arr(U16, 2, 65535, Sub(MemoryMapQuadInfo), 6)>>)

MemoryMapMessageEnd == Struct("MemoryMapMessageEnd", <<>>)

MessageRobotToExternalTag ==
  [UiDeviceConnected |-> 0, RobotCompletedAction |-> 1, Event |-> 2,
   EnrolledNamesResponse |-> 5, RobotObservedFace |-> 6,
   RobotChangedObservedFaceID |-> 7, ObjectConnectionState |-> 10,
   ObjectMoved |-> 11, ObjectStoppedMoving |-> 12,
   ObjectUpAxisChanged |-> 13, ObjectTapped |-> 14, ObjectAccel |-> 15,
   RobotObservedObject |-> 16, ObjectAvailable |-> 17,
   RobotDeletedFixedCustomObjects |-> 18,
   RobotDeletedCustomMarkerObjects |-> 19, CreatedFixedCustomObject |-> 20,
   DefinedCustomObject |-> 21, MemoryMapMessageBegin |-> 22,
   MemoryMapMessage |-> 23, MemoryMapMessageEnd |-> 24]

MessageRobotToExternal_unpackStruct ==
  [UiDeviceConnected |-> UiDeviceConnected,
   RobotCompletedAction |-> RobotCompletedAction, Event |-> Event,
   EnrolledNamesResponse |-> EnrolledNamesResponse,
   RobotObservedFace |-> RobotObservedFace,
   RobotChangedObservedFaceID |-> RobotChangedObservedFaceID,
   ObjectConnectionState |-> ObjectConnectionState,
   ObjectMoved |-> ObjectMoved, ObjectStoppedMoving |-> ObjectStoppedMoving,
   ObjectUpAxisChanged |-> ObjectUpAxisChanged,
   ObjectTapped |-> ObjectTapped, ObjectAccel |-> ObjectAccel,
   RobotObservedObject |-> RobotObservedObject,
   ObjectAvailable |-> ObjectAvailable,
   RobotDeletedFixedCustomObjects |-> RobotDeletedFixedCustomObjects,
   RobotDeletedCustomMarkerObjects |-> RobotDeletedCustomMarkerObjects,
   CreatedFixedCustomObject |-> CreatedFixedCustomObject,
   DefinedCustomObject |-> DefinedCustomObject,
   MemoryMapMessageBegin |-> MemoryMapMessageBegin,
   MemoryMapMessage |-> MemoryMapMessage,
   MemoryMapMessageEnd |-> MemoryMapMessageEnd]

MessageRobotToExternal_members1 ==
  [UiDeviceConnected |-> UiDeviceConnected,
   RobotCompletedAction |-> RobotCompletedAction, Event |-> Event,
   EnrolledNamesResponse |-> EnrolledNamesResponse,
   RobotObservedFace |-> RobotObservedFace,
   RobotChangedObservedFaceID |-> RobotChangedObservedFaceID,
   ObjectConnectionState |-> ObjectConnectionState]

MessageRobotToExternal_members2 ==
  [ObjectMoved |-> ObjectMoved, ObjectStoppedMoving |-> ObjectStoppedMoving,
   ObjectUpAxisChanged |-> ObjectUpAxisChanged,
   ObjectTapped |-> ObjectTapped, ObjectAccel |-> ObjectAccel,
   RobotObservedObject |-> RobotObservedObject,
   ObjectAvailable |-> ObjectAvailable]

MessageRobotToExternal_members3 ==
  [RobotDeletedFixedCustomObjects |-> RobotDeletedFixedCustomObjects,
   RobotDeletedCustomMarkerObjects |-> RobotDeletedCustomMarkerObjects,
   CreatedFixedCustomObject |-> CreatedFixedCustomObject,
   DefinedCustomObject |-> DefinedCustomObject,
   MemoryMapMessageBegin |-> MemoryMapMessageBegin,
   MemoryMapMessage |-> MemoryMapMessage,
   MemoryMapMessageEnd |-> MemoryMapMessageEnd]

MessageRobotToExternal ==
  Union("MessageRobotToExternal", MessageRobotToExternalTag, MessageRobotToExternal_unpackStruct,
        MessageRobotToExternal_members1 @@ MessageRobotToExternal_members2 @@ MessageRobotToExternal_members3)

UiDeviceConnectionWrongVersion ==
  Struct("UiDeviceConnectionWrongVersion", <<Str(U8, 1, 255)>>)

MoveHead == Struct("MoveHead", <<Num(F32, 4)>>)

MoveLift == Struct("MoveLift", <<Num(F32, 4)>>)

DriveArc == Struct("DriveArc", <<Num(F32, 4), Num(F32, 4), Num(I16, 2)>>)

DisplayFaceImageRGBChunk ==
  Struct("DisplayFaceImageRGBChunk", <<Fixed(600, Num(U16, 2)), Num(U16, 2),
   Num(U8, 1), Num(U8, 1), Num(U32, 4), Flag(1)>>)

RobotHistoryRequest == Struct("RobotHistoryRequest", <<>>)

AppIntent == Struct("AppIntent", <<Str(U8, 1, 255), Str(U8, 1, 255)>>)

CancelFaceEnrollment == Struct("CancelFaceEnrollment", <<>>)

RequestEnrolledNames == Struct("RequestEnrolledNames", <<>>)

UpdateEnrolledFaceByID ==
  Struct("UpdateEnrolledFaceByID", <<Num(I32, 4), Str(U8, 1, 255),
   Str(U8, 1, 255)>>)

EraseEnrolledFaceByID == Struct("EraseEnrolledFaceByID", <<Num(I32, 4)>>)

EraseAllEnrolledFaces == Struct("EraseAllEnrolledFaces", <<>>)

SetFaceToEnroll ==
  Struct("SetFaceToEnroll", <<Str(U8, 1, 255), Num(I32, 4), Num(I32, 4),
   Flag(1), Flag(1), Flag(1)>>)

VisionMode == Enum(U32, {1})

EnableVisionMode ==
  Struct("EnableVisionMode", <<Num(VisionMode, 4), Flag(1)>>)

PathMotionProfile ==
  Struct("PathMotionProfile", <<Num(F32, 4), Num(F32, 4), Num(F32, 4),
   Num(F32, 4), Num(F32, 4), Num(F32, 4), Num(F32, 4), Num(F32, 4),
   Num(F32, 4), Num(F32, 4), Flag(1)>>)

GotoPose ==
  Struct("GotoPose", <<Num(F32, 4), Num(F32, 4), Num(F32, 4),
   Sub(PathMotionProfile), Num(U8, 1)>>)

DriveStraight ==
  Struct("DriveStraight", <<Num(F32, 4), Num(F32, 4), Flag(1)>>)

TurnInPlace ==
  Struct("TurnInPlace", <<Num(F32, 4), Num(F32, 4), Num(F32, 4), Num(F32, 4),
   Num(U8, 1)>>)

SetHeadAngle ==
  Struct("SetHeadAngle", <<Num(F32, 4), Num(F32, 4), Num(F32, 4),
   Num(F32, 4)>>)

SetLiftHeight ==
  Struct("SetLiftHeight", <<Num(F32, 4), Num(F32, 4), Num(F32, 4),
   Num(F32, 4)>>)

AlignmentType == Enum(U8, (0..3))

AlignWithObject ==
  Struct("AlignWithObject", <<Num(I32, 4), Sub(PathMotionProfile),
   Num(F32, 4), Num(F32, 4), Flag(1), Flag(1), Num(AlignmentType, 1)>>)

SetLiftAngle ==
  Struct("SetLiftAngle", <<Num(F32, 4), Num(F32, 4), Num(F32, 4),
   Num(F32, 4)>>)

DeleteCustomMarkerObjects == Struct("DeleteCustomMarkerObjects", <<>>)

DeleteFixedCustomObjects == Struct("DeleteFixedCustomObjects", <<>>)

UndefineAllCustomMarkerObjects ==
  Struct("UndefineAllCustomMarkerObjects", <<>>)

CreateFixedCustomObject ==
  Struct("CreateFixedCustomObject", <<Sub(PoseStruct3d), Num(F32, 4),
   Num(F32, 4), Num(F32, 4)>>)

CustomObjectMarker == Enum(I16, (0..16))

DefineCustomBox ==
  Struct("DefineCustomBox", <<Num(ObjectType, 4), Num(CustomObjectMarker, 2),
   Num(CustomObjectMarker, 2), Num(CustomObjectMarker, 2),
   Num(CustomObjectMarker, 2), Num(CustomObjectMarker, 2),
   Num(CustomObjectMarker, 2), Num(F32, 4), Num(F32, 4), Num(F32, 4),
   Num(F32, 4), Num(F32, 4), Flag(1)>>)

DefineCustomCube ==
  Struct("DefineCustomCube", <<Num(ObjectType, 4),
   Num(CustomObjectMarker, 2), Num(F32, 4), Num(F32, 4), Num(F32, 4),
   Flag(1)>>)

DefineCustomWall ==
  Struct("DefineCustomWall", <<Num(ObjectType, 4),
   Num(CustomObjectMarker, 2), Num(F32, 4), Num(F32, 4), Num(F32, 4),
   Num(F32, 4), Flag(1)>>)

SetMemoryMapBroadcastFrequency_sec ==
  Struct("SetMemoryMapBroadcastFrequency_sec", <<Num(F32, 4)>>)

MessageExternalToRobotTag ==
  [UiDeviceConnectionWrongVersion |-> 0, MoveHead |-> 3, MoveLift |-> 4,
   DriveArc |-> 5, RobotHistoryRequest |-> 6, DisplayFaceImageRGBChunk |-> 8,
   AppIntent |-> 9, CancelFaceEnrollment |-> 10, RequestEnrolledNames |-> 11,
   UpdateEnrolledFaceByID |-> 12, EraseEnrolledFaceByID |-> 13,
   EraseAllEnrolledFaces |-> 14, SetFaceToEnroll |-> 15,
   EnableVisionMode |-> 16, GotoPose |-> 18, DriveStraight |-> 19,
   TurnInPlace |-> 20, SetHeadAngle |-> 21, SetLiftHeight |-> 22,
   AlignWithObject |-> 24, SetLiftAngle |-> 25,
   DeleteCustomMarkerObjects |-> 26, DeleteFixedCustomObjects |-> 27,
   UndefineAllCustomMarkerObjects |-> 28, CreateFixedCustomObject |-> 29,
   DefineCustomBox |-> 30, DefineCustomCube |-> 31, DefineCustomWall |-> 32,
   SetMemoryMapBroadcastFrequencySec |-> 33]

MessageExternalToRobot_unpackStruct ==
  [UiDeviceConnectionWrongVersion |-> UiDeviceConnectionWrongVersion,
   MoveHead |-> MoveHead, MoveLift |-> MoveLift, DriveArc |-> DriveArc,
   RobotHistoryRequest |-> RobotHistoryRequest,
   DisplayFaceImageRGBChunk |-> DisplayFaceImageRGBChunk,
   AppIntent |-> AppIntent, CancelFaceEnrollment |-> CancelFaceEnrollment,
   RequestEnrolledNames |-> RequestEnrolledNames,
   UpdateEnrolledFaceByID |-> UpdateEnrolledFaceByID,
   EraseEnrolledFaceByID |-> EraseEnrolledFaceByID,
   EraseAllEnrolledFaces |-> EraseAllEnrolledFaces,
   SetFaceToEnroll |-> SetFaceToEnroll,
   EnableVisionMode |-> EnableVisionMode, GotoPose |-> GotoPose,
   DriveStraight |-> DriveStraight, TurnInPlace |-> TurnInPlace,
   SetHeadAngle |-> SetHeadAngle, SetLiftHeight |-> SetLiftHeight,
   AlignWithObject |-> AlignWithObject, SetLiftAngle |-> SetLiftAngle,
   DeleteCustomMarkerObjects |-> DeleteCustomMarkerObjects,
   DeleteFixedCustomObjects |-> DeleteFixedCustomObjects,
   UndefineAllCustomMarkerObjects |-> UndefineAllCustomMarkerObjects,
   CreateFixedCustomObject |-> CreateFixedCustomObject,
   DefineCustomBox |-> DefineCustomBox,
   DefineCustomCube |-> DefineCustomCube,
   DefineCustomWall |-> DefineCustomWall,
   SetMemoryMapBroadcastFrequencySec |-> SetMemoryMapBroadcastFrequency_sec]

MessageExternalToRobot_members1 ==
  [UiDeviceConnectionWrongVersion |-> UiDeviceConnectionWrongVersion,
   MoveHead |-> MoveHead, MoveLift |-> MoveLift, DriveArc |-> DriveArc,
   RobotHistoryRequest |-> RobotHistoryRequest,
   DisplayFaceImageRGBChunk |-> DisplayFaceImageRGBChunk,
   AppIntent |-> AppIntent]

MessageExternalToRobot_members2 ==
  [CancelFaceEnrollment |-> CancelFaceEnrollment,
   RequestEnrolledNames |-> RequestEnrolledNames,
   UpdateEnrolledFaceByID |-> UpdateEnrolledFaceByID,
   EraseEnrolledFaceByID |-> EraseEnrolledFaceByID,
   EraseAllEnrolledFaces |-> EraseAllEnrolledFaces,
   SetFaceToEnroll |-> SetFaceToEnroll,
   EnableVisionMode |-> EnableVisionMode]

MessageExternalToRobot_members3 ==
  [GotoPose |-> GotoPose, DriveStraight |-> DriveStraight,
   TurnInPlace |-> TurnInPlace, SetHeadAngle |-> SetHeadAngle,
   SetLiftHeight |-> SetLiftHeight, AlignWithObject |-> AlignWithObject,
   SetLiftAngle |-> SetLiftAngle]

MessageExternalToRobot_members4 ==
  [DeleteCustomMarkerObjects |-> DeleteCustomMarkerObjects,
   DeleteFixedCustomObjects |-> DeleteFixedCustomObjects,
   UndefineAllCustomMarkerObjects |-> UndefineAllCustomMarkerObjects,
   CreateFixedCustomObject |-> CreateFixedCustomObject,
   DefineCustomBox |-> DefineCustomBox,
   DefineCustomCube |-> DefineCustomCube,
   DefineCustomWall |-> DefineCustomWall]

MessageExternalToRobot_members5 ==
  [SetMemoryMapBroadcastFrequencySec |-> SetMemoryMapBroadcastFrequency_sec]

MessageExternalToRobot ==
  Union("MessageExternalToRobot", MessageExternalToRobotTag, MessageExternalToRobot_unpackStruct,
        MessageExternalToRobot_members1 @@ MessageExternalToRobot_members2 @@ MessageExternalToRobot_members3 @@ MessageExternalToRobot_members4 @@ MessageExternalToRobot_members5)

SwitchboardError == Struct("SwitchboardError", <<>>)

ExternalConnectionRequest == Struct("ExternalConnectionRequest", <<>>)

ExternalConnectionResponse ==
  Struct("ExternalConnectionResponse", <<Flag(1), Str(U16, 2, 65535)>>)

ClientGuidRefreshRequest == Struct("ClientGuidRefreshRequest", <<>>)

ClientGuidRefreshResponse == Struct("ClientGuidRefreshResponse", <<>>)

SdkProxyRequest ==
  Struct("SdkProxyRequest", <<Str(U8, 1, 255), Str(U8, 1, 255),
   Str(U8, 1, 255), Str(U16, 2, 65535)>>)

SdkProxyResponse ==
  Struct("SdkProxyResponse", <<Str(U8, 1, 255), Num(U16, 2), Str(U8, 1, 255),
   Str(U16, 2, 65535)>>)

SwitchboardRequestTag ==
  [SwitchboardError |-> 1, AuthRequest |-> 2, JwtRequest |-> 3,
   ExternalConnectionRequest |-> 4, ExternalConnectionResponse |-> 5,
   ClientGuidRefreshResponse |-> 6, SdkProxyResponse |-> 7]

SwitchboardRequest_unpackStruct ==
  [SwitchboardError |-> SwitchboardError, AuthRequest |-> AuthRequest,
   JwtRequest |-> JwtRequest,
   ExternalConnectionRequest |-> ExternalConnectionRequest,
   ExternalConnectionResponse |-> ExternalConnectionResponse,
   ClientGuidRefreshResponse |-> ClientGuidRefreshResponse,
   SdkProxyResponse |-> SdkProxyResponse]

SwitchboardRequest_members ==
  [SwitchboardError |-> SwitchboardError, AuthRequest |-> AuthRequest,
   JwtRequest |-> JwtRequest,
   ExternalConnectionRequest |-> ExternalConnectionRequest,
   ExternalConnectionResponse |-> ExternalConnectionResponse,
   ClientGuidRefreshResponse |-> ClientGuidRefreshResponse,
   SdkProxyResponse |-> SdkProxyResponse]

SwitchboardRequest ==
  Union("SwitchboardRequest", SwitchboardRequestTag, SwitchboardRequest_unpackStruct,
        SwitchboardRequest_members)

SwitchboardResponseTag ==
  [SwitchboardError |-> 1, AuthResponse |-> 2, JwtResponse |-> 3,
   ExternalConnectionRequest |-> 4, ExternalConnectionResponse |-> 5,
   ClientGuidRefreshRequest |-> 6, SdkProxyRequest |-> 7]

SwitchboardResponse_unpackStruct ==
  [SwitchboardError |-> SwitchboardError, AuthResponse |-> AuthResponse,
   JwtResponse |-> JwtResponse,
   ExternalConnectionRequest |-> ExternalConnectionRequest,
   ExternalConnectionResponse |-> ExternalConnectionResponse,
   ClientGuidRefreshRequest |-> ClientGuidRefreshRequest,
   SdkProxyRequest |-> SdkProxyRequest]

SwitchboardResponse_members ==
  [SwitchboardError |-> SwitchboardError, AuthResponse |-> AuthResponse,
   JwtResponse |-> JwtResponse,
   ExternalConnectionRequest |-> ExternalConnectionRequest,
   ExternalConnectionResponse |-> ExternalConnectionResponse,
   ClientGuidRefreshRequest |-> ClientGuidRefreshRequest,
   SdkProxyRequest |-> SdkProxyRequest]

SwitchboardResponse ==
  Union("SwitchboardResponse", SwitchboardResponseTag, SwitchboardResponse_unpackStruct,
        SwitchboardResponse_members)
=============================================================================
