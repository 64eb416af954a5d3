------------------------------- MODULE MCNode --------------------------------
(* What a node is built of besides its network, on small instances: the node *)
(* itself and its table of messages, the performance and the security        *)
(* helpers of the intervention layer, and the hook of the web interface.     *)
(* They share no state, and a behaviour runs one of them: part says which.   *)
EXTENDS ConnectionPool, InterventionQueue, ConversationShard, PerformanceMetrics,
        KeyRotation, LimitsAndReputation, InterventionSecurity,
        ClawNode, MessageHistory, InterventionHook

VARIABLE part

\* Three requests of one priority and a more urgent one
Priorities == <<3, 3, 3, 1>>
\* Two conversations of one shard
TwoInAShard == [c \in {"a", "b"} |-> 1]
Alerts == {[metric |-> "latency", comparison |-> "gt", threshold |-> 1]}

suiteVars ==
    <<part, vars, queueVars, shardVars, metricsVars, keyVars, rateVars,
      reputationVars, confirmationVars, auditVars, nodeVars, historyVars,
      hookVars>>

SuiteInit ==
    /\ part \in {"pool", "queue", "shard", "metrics", "keys", "limits",
                 "reputation", "confirmations", "audit", "node", "history",
                 "hook"}
    /\ Init /\ QueueInit /\ ShardInit /\ MetricsInit /\ KeyInit
    /\ RateInit /\ ReputationInit /\ ConfirmationInit /\ AuditInit
    /\ NodeInit /\ HistoryInit /\ HookInit

SuiteNext ==
    /\ UNCHANGED part
    /\ \/ /\ part = "pool" /\ Next
          /\ UNCHANGED <<queueVars, shardVars, metricsVars, keyVars,
                        rateVars, reputationVars, confirmationVars,
                        auditVars, nodeVars, historyVars, hookVars>>
       \/ /\ part = "queue" /\ QueueNext
          /\ UNCHANGED <<vars, shardVars, metricsVars, keyVars, rateVars,
                        reputationVars, confirmationVars, auditVars,
                        nodeVars, historyVars, hookVars>>
       \/ /\ part = "shard" /\ ShardNext
          /\ UNCHANGED <<vars, queueVars, metricsVars, keyVars, rateVars,
                        reputationVars, confirmationVars, auditVars,
                        nodeVars, historyVars, hookVars>>
       \/ /\ part = "metrics" /\ MetricsNext
          /\ UNCHANGED <<vars, queueVars, shardVars, keyVars, rateVars,
                        reputationVars, confirmationVars, auditVars,
                        nodeVars, historyVars, hookVars>>
       \/ /\ part = "keys" /\ KeyNext
          /\ UNCHANGED <<vars, queueVars, shardVars, metricsVars, rateVars,
                        reputationVars, confirmationVars, auditVars,
                        nodeVars, historyVars, hookVars>>
       \/ /\ part = "limits" /\ RateNext
          /\ UNCHANGED <<vars, queueVars, shardVars, metricsVars, keyVars,
                        reputationVars, confirmationVars, auditVars,
                        nodeVars, historyVars, hookVars>>
       \/ /\ part = "reputation" /\ ReputationNext
          /\ UNCHANGED <<vars, queueVars, shardVars, metricsVars, keyVars,
                        rateVars, confirmationVars, auditVars, nodeVars,
                        historyVars, hookVars>>
       \/ /\ part = "confirmations" /\ ConfirmationNext
          /\ UNCHANGED <<vars, queueVars, shardVars, metricsVars, keyVars,
                        rateVars, reputationVars, auditVars, nodeVars,
                        historyVars, hookVars>>
       \/ /\ part = "audit" /\ AuditNext
          /\ UNCHANGED <<vars, queueVars, shardVars, metricsVars, keyVars,
                        rateVars, reputationVars, confirmationVars,
                        nodeVars, historyVars, hookVars>>
       \/ /\ part = "node" /\ NodeNext
          /\ UNCHANGED <<vars, queueVars, shardVars, metricsVars, keyVars,
                        rateVars, reputationVars, confirmationVars,
                        auditVars, historyVars, hookVars>>
       \/ /\ part = "history" /\ HistoryNext
          /\ UNCHANGED <<vars, queueVars, shardVars, metricsVars, keyVars,
                        rateVars, reputationVars, confirmationVars,
                        auditVars, nodeVars, hookVars>>
       \/ /\ part = "hook" /\ HookNext
          /\ UNCHANGED <<vars, queueVars, shardVars, metricsVars, keyVars,
                        rateVars, reputationVars, confirmationVars,
                        auditVars, nodeVars, historyVars>>

SuiteSpec == SuiteInit /\ [][SuiteNext]_suiteVars

Symmetry == Permutations(Sockets) \cup Permutations(Urls)
==============================================================================
