---- MODULE MCLogList ----
(***************************************************************************)
(* The logs tab with five logs, one of them late and from before the live  *)
(* window, and texts that use every part of the search language.           *)
(***************************************************************************)
EXTENDS LogList

K == "attributes.k"
Sev == "severity_number"

Log(t, value, severity) == [t |-> t, log |-> (K :> value @@ Sev :> Number(severity))]

MCFeed ==
    <<Log(1, Text(<<"a">>), 1), Log(2, Text(<<"a", " ", "b">>), 2), Log(4, Number(2), 1),
      Log(5, Text(<<"*", Quote>>), 2), Log(2, Absent, 1)>>

MCLive == [mode |-> "live", range |-> 2]
MCWindows ==
    {MCLive, [mode |-> "live", range |-> 0], [mode |-> "fixed", from |-> 2, to |-> 5]}

MCTyped ==
    {<<>>, <<"b">>, <<"a", " ", "AND", " ", K, ":", "*">>, <<"-", K, ":", ">", "1">>,
     <<K, ":", "~", Quote, "a", " ", "*", Quote>>, <<K, ":", Quote, "*", Escape, Quote, Quote>>,
     <<Sev, ":", "2">>, <<K, ":", "*", "a", "*">>, <<K, ":", Quote>>,
     <<"a", " ", "AND", " ", "b">>, <<Sev, ":">>, <<K, ":", "~", Quote, Quote>>}
====
