------------------------------ MODULE MCConfig ------------------------------
(* Instances of Config for TLC. *)
EXTENDS Config

Values ==
  {<<"x">>, <<"x", " ", "0">>, <<"x", "/">>, <<"%", "x">>, <<" ", "=", "=">>,
   <<"9">>, <<"1", "9">>, <<"9", "0">>, <<"9", "1">>, <<"1", "0", "9", "0">>,
   <<"1", "9", "0">>, <<"9", "9", "9", "0">>}

(* One plain line for each variable and each value, ...                    *)
Plain == {<<key, "=">> \o v : key \in Texts \cup Numbers, v \in Values}

(* ... and the ways in which a line can be laid out.                       *)
LaidOut ==
  {begin \o middle \o end :
     begin \in {<< >>, <<" ", "#">>, <<"/", "/">>, <<"/">>, <<"=", " ", "=">>},
     middle \in {<< >>, <<"TIMEOUT_DAEMON">>, <<"TIMEOUT_DAEMON", "x">>,
                <<"PREFIX_PIPEANSWER", " ">>},
     end \in {<< >>, <<"=", " ", "9", "0">>, <<"=", "=", "9", "0", " ">>,
             <<"9", "0">>, <<"=", "9", " ", "0", "=", "1">>}}

MCLines == Plain \cup LaidOut

MCPaths ==
  {<< >>, <<".", "config">>, <<"a", ".", "config">>, <<"/", ".", "config">>,
   <<"a", ".", "config", ".", "a">>}

MCSymbols ==
  UNION {ToSet(s) : s \in MCLines \cup MCPaths} \cup {"/tmp/", "_", "%", "d"}
=============================================================================
