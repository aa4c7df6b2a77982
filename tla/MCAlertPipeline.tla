-------------------------- MODULE MCAlertPipeline --------------------------
(***************************************************************************)
(* Small instances of AlertPipeline for TLC.  Slack stands for the three   *)
(* destinations that make one attempt.                                     *)
(***************************************************************************)
EXTENDS AlertPipeline, TLC

MCKind == "osmo stalled" :> "stalled" @@ "osmo percent" :> "percent" @@
          "osmo norpc" :> "norpc" @@ "juno norpc" :> "norpc"
MCTexts == DOMAIN MCKind
MCDests == {"pagerduty", "slack"}

(* One chain, two alarms, every destination.                               *)
OneChain == {"osmo"}
StalledAndPercent == [c \in OneChain |-> {"osmo stalled", "osmo percent"}]
AllDests == [c \in OneChain |-> MCDests]

(* Two chains that contend for the queue, one alarm and destination each;  *)
(* the second starts without a usable endpoint.                            *)
TwoChains == {"osmo", "juno"}
StalledOrNoRPC == "osmo" :> {"osmo stalled"} @@ "juno" :> {"juno norpc"}
JunoStarting == {"juno"}
OneDestEach == "osmo" :> {"pagerduty"} @@ "juno" :> {"slack"}

(* One chain whose two alarms pass the same id.                            *)
StalledAndNoRPC == [c \in OneChain |-> {"osmo stalled", "osmo norpc"}]
OnlyPagerDuty == [c \in OneChain |-> {"pagerduty"}]
=============================================================================
