------------------------------- MODULE MCRetry -------------------------------
EXTENDS Retry

Chains(outer, inner) == {<<o, i>> : o \in outer, i \in inner}

Api  == {"api"} \X {"throttling", "timeout", "other"}
Http == {"http"} \X {"4xx", "5xx"}
Url  == {"url"} \X {"temporary", "lasting"}
Net      == <<"net", "">>
Dial     == <<"dial", "">>
Deadline == <<"deadline", "request">>
Canceled == <<"canceled", "request">>
Bomb     == <<"bomb", "">>
Plain    == <<"plain", "">>

(* The errors of an SDK call: an answer of the service, a failure of the    *)
(* transport (the error of an expired context is always Temporary), the    *)
(* error of the body's reader with and without wrapping.                    *)
MCFailures ==
  {<<l>> : l \in Api \cup {Net, Dial, Deadline, Canceled, Bomb, Plain}}
    \cup Chains(Http, Api)
    \cup Chains(Url, {Net, Plain})
    \cup Chains({<<"url", "temporary">>}, {Deadline})
    \cup Chains({<<"url", "lasting">>}, {Dial, Canceled, Bomb})
    \cup Chains({Net}, {Bomb, Canceled})
=============================================================================
