------------------------------ MODULE Services ------------------------------
(* The services that share no state with each other and none with the way of  *)
(* a message: a behaviour shows one of them, chosen at its start, while the   *)
(* others rest. What holds of each service alone holds beside the others.     *)
EXTENDS Sessions, LoginLimiter, Backups, ErrorEvents, RecentUsage, HeaderSnapshots,
        LocalRanking, Ranking, LatencyStats, ActivityGrid, RealtimeQuery, EventList,
        RequestLogs, WindowUsage, Pricing, PricingSync, TokenProcessor

CONSTANT Observed    \* the services that are looked at

VARIABLE service     \* the one this behaviour shows

servicesVars ==
    <<service, sessionsVars, limiterVars, backupVars, errorVars, recentVars, headerVars,
      rankedVars, rankingVars, windowVars, latencyVars, activityVars, liveRows, listVars,
      logVars, tokenVars, pricingVars, previewVars, processorVars>>

ServicesInit ==
    /\ service \in Observed
    /\ SessionsInit
    /\ LimiterInit
    /\ BackupsInit
    /\ ErrorsInit
    /\ RecentInit
    /\ HeaderInit
    /\ LocalInit
    /\ RankingInit
    /\ WindowsInit
    /\ LatencyInit
    /\ ActivityInit
    /\ LiveInit
    /\ ListInit
    /\ LogsInit
    /\ TokensInit
    /\ PricingInit
    /\ PreviewInit
    /\ ProcessorInit
    /\ service # "backups" => backupInterval = DaySlots
    /\ service # "statistics" => hasCache /\ windowClock = Max(UsageAges)

ServicesNext ==
    /\ UNCHANGED service
    /\ IF service = "sessions" THEN SessionsNext ELSE UNCHANGED sessionsVars
    /\ IF service = "limiter" THEN LimiterNext ELSE UNCHANGED limiterVars
    /\ IF service = "backups" THEN BackupsNext ELSE UNCHANGED backupVars
    /\ IF service = "errors" THEN ErrorsNext ELSE UNCHANGED errorVars
    /\ IF service = "recent" THEN RecentNext ELSE UNCHANGED recentVars
    /\ IF service = "headers" THEN HeaderNext ELSE UNCHANGED headerVars
    /\ IF service = "localRanking" THEN LocalNext ELSE UNCHANGED rankedVars
    /\ IF service = "ranking" THEN RankingNext ELSE UNCHANGED rankingVars
    /\ IF service = "statistics" THEN WindowsNext ELSE UNCHANGED windowVars
    /\ IF service = "latency" THEN LatencyNext ELSE UNCHANGED latencyVars
    /\ IF service = "activity" THEN ActivityNext ELSE UNCHANGED activityVars
    /\ IF service = "realtime" THEN LiveNext ELSE UNCHANGED liveRows
    /\ IF service = "list" THEN ListNext ELSE UNCHANGED listVars
    /\ IF service = "logs" THEN LogsNext ELSE UNCHANGED logVars
    /\ IF service = "downloads" THEN TokensNext ELSE UNCHANGED tokenVars
    /\ IF service = "pricing" THEN PricingNext ELSE UNCHANGED pricingVars
    /\ IF service = "preview" THEN FetchPublicCatalog ELSE UNCHANGED previewVars
    /\ IF service = "counts" THEN ProcessEvent ELSE UNCHANGED processorVars

ServicesSpec == ServicesInit /\ [][ServicesNext]_servicesVars

-----------------------------------------------------------------------------
(* The pages of statistics count what they should, whatever the aggregation   *)
(* and the cache have of it when they are asked for.                          *)
StatisticsAgree ==
    /\ service = "statistics" => OverviewCountsOnce /\ AnalysisAddsUp /\ WindowUsageCountsOnce
    /\ service = "latency" => LatencyAgrees
    /\ service = "activity" => ActivityGridAgrees
    /\ service = "realtime" => LivePageAgrees

(* Costs are those of the prices that were saved, whatever is saved while a   *)
(* page is computed; a price that is offered is that of the model; and the    *)
(* tokens that are priced add up, whichever executor has counted them.        *)
PricesAgree ==
    /\ service = "pricing" => PagesPriceOnce /\ PricesArePublished
    /\ service = "preview" => PreviewOffersBest
    /\ service = "counts" => TokensAddUp
=============================================================================
