---------------------------- MODULE MCPySimulation ----------------------------
(* Model-checking instance of PySimulation: an urgent process that awaits    *)
(* directly, one that joins and is evicted, one that races.                  *)
EXTENDS PySimulation

Direct(k) == [comb |-> IF k = "acquire" THEN "acquire" ELSE "wait", kinds |-> <<k>>]
AnyOf(ks) == [comb |-> "any", kinds |-> ks]
AllOf(ks) == [comb |-> "all", kinds |-> ks]

MCMaxYields == <<1, 2, 1>>
MCReq == UNION {{p} \X (1..MaxYields[p]) : p \in Proc}
MCUrgency == <<1, 2, 2>>
MCMenu ==
  <<{Direct("acquire")},
    {Direct("acquire"), Direct("signal"), AllOf(<<"acquire", "timer">>),
     AnyOf(<<"timer", "event">>)},
    {AnyOf(<<"acquire", "timer">>), AnyOf(<<"timer", "acquire">>), Direct("event")}>>

=============================================================================
