----------------------------- MODULE MCBleProxy -----------------------------
(* Every handler against another call of its own, every pair of handlers    *)
(* with the same answer, and every handler beside BatteryState, by gRPC;    *)
(* and every path by way of switchboard, beside a call and a stream, and    *)
(* one that is no URL.                                                      *)
EXTENDS BleProxy

Pairs ==
  {<<a, b>> \in (DOMAIN Handlers) \X (DOMAIN Handlers) :
     \/ a = b
     \/ b = "BatteryState"
     \/ /\ Handlers[a].in = Handlers[b].in /\ Handlers[a].in # "none"
        /\ Handlers[a].manager = Handlers[b].manager}

TwoCalls == {[c \in {1, 2} |-> p[c]] : p \in Pairs}

Paths == {pattern[n] : n \in DOMAIN pattern} \union StreamURLs \union {NotAURL}

(* Any path beside a call by gRPC; some of them beside another request and  *)
(* beside a stream.                                                         *)
Some ==
  {"battery_state", "user_authentication", "say_text", "audio_feed", NotAURL}
AnyPath == {<<SdkProxyRequest(1, TRUE, p)>> : p \in Paths}
SomePaths ==
  UNION {{<<SdkProxyRequest(1, FALSE, p)>>,
          <<SdkProxyRequest(1, FALSE, "photo"), ClientGuidRefreshRequest,
            SdkProxyRequest(2, TRUE, p)>>,
          <<SdkProxyRequest(1, TRUE, "event_stream"),
            ExternalConnectionRequest, SdkProxyRequest(2, TRUE, p)>>} :
         p \in Some}

AnInbox(r) ==
  {<<>>} \union
  IF r[1] = "BatteryState" /\ r[2] = "BatteryState"
  THEN AnyPath \union SomePaths ELSE {}

=============================================================================
