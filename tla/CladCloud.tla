---------------------------- MODULE CladCloud -------------------------------
(* The CLAD messages of package cloud: microphone and voice results,       *)
(* tokens, documents and the log collector, in the notation of CladGateway. *)
EXTENDS CladForms, TLC

Void == Struct("Void", <<>>)

StreamType == Enum(U8, (0..2))

ErrorType == Enum(U8, (0..8))

ConnectionCode == Enum(U8, (0..4))

StreamOpen == Struct("StreamOpen", <<Str(U8, 1, 255)>>)

Hotword ==
  Struct("Hotword", <<Num(StreamType, 1), Str(U8, 1, 255), Str(U8, 1, 255),
   Flag(1)>>)

Filename == Struct("Filename", <<Str(U8, 1, 255)>>)

AudioData == Struct("AudioData", <<Arr(U16, 2, 65535, Num(I16, 2), 2)>>)

IntentResult ==
  Struct("IntentResult", <<Str(U8, 1, 255), Str(U16, 2, 65535),
   Str(U16, 2, 65535)>>)

IntentError == Struct("IntentError", <<Num(ErrorType, 1), Str(U8, 1, 255)>>)

ConnectionResult ==
  Struct("ConnectionResult", <<Num(ConnectionCode, 1), Str(U8, 1, 255),
   Num(U8, 1), Num(U8, 1)>>)

MessageTag ==
  [Hotword |-> 0, Audio |-> 1, AudioDone |-> 2, ConnectionCheck |-> 3,
   StopSignal |-> 4, TestStarted |-> 5, StreamTimeout |-> 6,
   ConnectionResult |-> 7, DebugFile |-> 8, Result |-> 9, Error |-> 10,
   StreamOpen |-> 11]

Message_unpackStruct ==
  [Hotword |-> Hotword, Audio |-> AudioData, AudioDone |-> Void,
   ConnectionCheck |-> Void, StopSignal |-> Void, TestStarted |-> Void,
   StreamTimeout |-> Void, ConnectionResult |-> ConnectionResult,
   DebugFile |-> Filename, Result |-> IntentResult, Error |-> IntentError,
   StreamOpen |-> StreamOpen]

Message_members1 ==
  [Hotword |-> Hotword, Audio |-> AudioData, AudioDone |-> Void,
   ConnectionCheck |-> Void, StopSignal |-> Void, TestStarted |-> Void,
   StreamTimeout |-> Void]

Message_members2 ==
  [ConnectionResult |-> ConnectionResult, DebugFile |-> Filename,
   Result |-> IntentResult, Error |-> IntentError, StreamOpen |-> StreamOpen]

Message ==
  Union("Message", MessageTag, Message_unpackStruct,
        Message_members1 @@ Message_members2)

TokenError == Enum(U8, (0..4))

AuthRequest ==
  Struct("AuthRequest", <<Str(U8, 1, 255), Str(U8, 1, 255),
   Str(U8, 1, 255)>>)

AuthResponse ==
  Struct("AuthResponse", <<Str(U16, 2, 65535), Str(U16, 2, 65535),
   Num(TokenError, 1)>>)

ReassociateRequest ==
  Struct("ReassociateRequest", <<Str(U8, 1, 255), Str(U8, 1, 255),
   Str(U8, 1, 255)>>)

SecondaryAuthRequest ==
  Struct("SecondaryAuthRequest", <<Str(U8, 1, 255), Str(U8, 1, 255),
   Str(U8, 1, 255)>>)

JwtRequest == Struct("JwtRequest", <<Flag(1)>>)

JwtResponse ==
  Struct("JwtResponse", <<Str(U16, 2, 65535), Num(TokenError, 1)>>)

TokenRequestTag ==
  [Auth |-> 0, Secondary |-> 1, Reassociate |-> 2, Jwt |-> 3]

TokenRequest_unpackStruct ==
  [Auth |-> AuthRequest, Secondary |-> SecondaryAuthRequest,
   Reassociate |-> ReassociateRequest, Jwt |-> JwtRequest]

TokenRequest_members ==
  [Auth |-> AuthRequest, Secondary |-> SecondaryAuthRequest,
   Reassociate |-> ReassociateRequest, Jwt |-> JwtRequest]

TokenRequest ==
  Union("TokenRequest", TokenRequestTag, TokenRequest_unpackStruct,
        TokenRequest_members)

TokenResponseTag ==
  [Auth |-> 0, Jwt |-> 1]

TokenResponse_unpackStruct ==
  [Auth |-> AuthResponse, Jwt |-> JwtResponse]

TokenResponse_members ==
  [Auth |-> AuthResponse, Jwt |-> JwtResponse]

TokenResponse ==
  Union("TokenResponse", TokenResponseTag, TokenResponse_unpackStruct,
        TokenResponse_members)

Doc ==
  Struct("Doc", <<Num(U64, 8), Num(U64, 8), Str(U8, 1, 255),
   LongStr(U32, 4)>>)

WriteRequest ==
  Struct("WriteRequest", <<Str(U16, 2, 65535), Str(U16, 2, 65535),
   Str(U16, 2, 65535), Sub(Doc)>>)

DocError == Enum(U8, {0})

WriteStatus == Enum(U8, (0..3))

WriteResponse ==
  Struct("WriteResponse", <<Num(WriteStatus, 1), Num(U64, 8)>>)

ReadItem == Struct("ReadItem", <<Str(U8, 1, 255), Num(U64, 8)>>)

ReadRequest ==
  Struct("ReadRequest", <<Str(U16, 2, 65535), Str(U16, 2, 65535),
   Loop(U16, 2, 65535, Sub(ReadItem))>>)

ReadStatus == Enum(U8, (0..3))

ResponseDoc == Struct("ResponseDoc", <<Num(ReadStatus, 1), Sub(Doc)>>)

ReadResponse ==
  Struct("ReadResponse", <<Loop(U16, 2, 65535, Sub(ResponseDoc))>>)

DeleteRequest ==
  Struct("DeleteRequest", <<Str(U16, 2, 65535), Str(U16, 2, 65535),
   Str(U16, 2, 65535)>>)

DocRequestTag ==
  [Write |-> 0, Read |-> 1, DeleteReq |-> 2, User |-> 3, Thing |-> 4]

DocRequest_unpackStruct ==
  [Write |-> WriteRequest, Read |-> ReadRequest, DeleteReq |-> DeleteRequest,
   User |-> Void, Thing |-> Void]

DocRequest_members ==
  [Write |-> WriteRequest, Read |-> ReadRequest, DeleteReq |-> DeleteRequest,
   User |-> Void, Thing |-> Void]

DocRequest ==
  Union("DocRequest", DocRequestTag, DocRequest_unpackStruct,
        DocRequest_members)

ErrorResponse == Struct("ErrorResponse", <<Num(DocError, 1)>>)

UserResponse == Struct("UserResponse", <<Str(U8, 1, 255)>>)

ThingResponse == Struct("ThingResponse", <<Str(U8, 1, 255)>>)

DocResponseTag ==
  [Write |-> 0, Read |-> 1, DeleteResp |-> 2, Err |-> 3, User |-> 4,
   Thing |-> 5]

DocResponse_unpackStruct ==
  [Write |-> WriteResponse, Read |-> ReadResponse, DeleteResp |-> Void,
   Err |-> ErrorResponse, User |-> UserResponse, Thing |-> ThingResponse]

DocResponse_members ==
  [Write |-> WriteResponse, Read |-> ReadResponse, DeleteResp |-> Void,
   Err |-> ErrorResponse, User |-> UserResponse, Thing |-> ThingResponse]

DocResponse ==
  Union("DocResponse", DocResponseTag, DocResponse_unpackStruct,
        DocResponse_members)

LogCollectorError == Enum(U8, {0})

UploadResponse == Struct("UploadResponse", <<Str(U16, 2, 65535)>>)

UploadRequest == Struct("UploadRequest", <<Str(U16, 2, 65535)>>)

LogCollectorRequestTag ==
  [Upload |-> 0]

LogCollectorRequest_unpackStruct ==
  [Upload |-> UploadRequest]

LogCollectorRequest_members ==
  [Upload |-> UploadRequest]

LogCollectorRequest ==
  Union("LogCollectorRequest", LogCollectorRequestTag, LogCollectorRequest_unpackStruct,
        LogCollectorRequest_members)

LogCollectorErrorResponse ==
  Struct("LogCollectorErrorResponse", <<Num(LogCollectorError, 1)>>)

LogCollectorResponseTag ==
  [Upload |-> 0, Err |-> 1]

LogCollectorResponse_unpackStruct ==
  [Upload |-> UploadResponse, Err |-> LogCollectorErrorResponse]

LogCollectorResponse_members ==
  [Upload |-> UploadResponse, Err |-> LogCollectorErrorResponse]

LogCollectorResponse ==
  Union("LogCollectorResponse", LogCollectorResponseTag, LogCollectorResponse_unpackStruct,
        LogCollectorResponse_members)
=============================================================================
