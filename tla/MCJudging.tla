----------------------------- MODULE MCJudging ------------------------------
(***************************************************************************)
(* What surrounds one task between its claim and its verdict - the node's  *)
(* identity and runtime, the test data, the processing, the commands run   *)
(* in the sandbox, the relay of a proxied pipe, the store of the files -   *)
(* each on its own small instance: a behaviour runs the one that `part`    *)
(* names and leaves the others as they began, with none of their fair      *)
(* actions enabled.                                                        *)
(***************************************************************************)
EXTENDS NodeManager, TestdataCache, JudgeTask, TimeoutStore, PipeProxy, CmdRun,
        Enrollment

VARIABLE part

MCCached == {<<1, "out">>, <<2, "col">>}

AnyTask == [mode |-> "default", kind |-> "ACM", program |-> FALSE]

Init ==
    /\ part \in {"manager", "data", "task", "store", "pipe", "command", "enrolment"}
    /\ NodeInit /\ CacheInit /\ JudgeInit /\ StoreInit /\ ProxyInit /\ CmdInit /\ EnrolInit
    /\ part # "task" => task = AnyTask
    /\ part # "manager" => ~configured
    /\ part # "enrolment" => cfgName = "n1"

Next ==
    /\ UNCHANGED part
    /\ \/ part = "manager" /\ NodeNext
          /\ UNCHANGED <<cacheVars, judgeVars, storeVars, proxyVars, cmdVars, enrolVars>>
       \/ part = "data" /\ CacheNext
          /\ UNCHANGED <<nodeVars, judgeVars, storeVars, proxyVars, cmdVars, enrolVars>>
       \/ part = "task" /\ JudgeNext
          /\ UNCHANGED <<nodeVars, cacheVars, storeVars, proxyVars, cmdVars, enrolVars>>
       \/ part = "store" /\ StoreNext
          /\ UNCHANGED <<nodeVars, cacheVars, judgeVars, proxyVars, cmdVars, enrolVars>>
       \/ part = "pipe" /\ ProxyNext
          /\ UNCHANGED <<nodeVars, cacheVars, judgeVars, storeVars, cmdVars, enrolVars>>
       \/ part = "command" /\ CmdNext
          /\ UNCHANGED <<nodeVars, cacheVars, judgeVars, storeVars, proxyVars, enrolVars>>
       \/ part = "enrolment" /\ EnrolNext
          /\ UNCHANGED <<nodeVars, cacheVars, judgeVars, storeVars, proxyVars, cmdVars>>

Spec ==
    /\ Init /\ [][Next]_<<part, nodeVars, cacheVars, judgeVars, storeVars, proxyVars, cmdVars,
                      enrolVars>>
    /\ NodeFairness /\ StoreFairness /\ ProxyFairness /\ CmdFairness
=============================================================================
