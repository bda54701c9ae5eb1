------------------------------ MODULE MCSession ------------------------------
(* Versions on every side of a limit; lists of up to two types.                *)
EXTENDS Session

UpTo2(types) == {<<>>} \cup {<<t>> : t \in types} \cup (types \X types)

MCVersions == {<<>>, <<3, 3>>, <<3, 7>>, <<3, 8>>, <<3, 14>>, <<3, 889>>, <<4, 1>>}
MCWords == {"Invalid", "None", "VNC", "MSLogon", "Tight"}
MCLists == UpTo2({"None", "TLS", "VeNCrypt", "Tight"})
             \cup {<<"VNC">>, <<"SASL">>, <<"ARD">>, <<"MSLogonII">>}
MCSubLists == UpTo2({"None", "SASL", "Tight"}) \cup {<<"VNC">>, <<"ARD">>, <<"TLS", "None">>}
MCVeNCryptLists == {<<>>, <<"Plain">>, <<"X509Plain">>, <<"TLSVNC">>, <<"TLSSASL">>,
                    <<"Plain", "TLSPlain">>, <<"TLSNone", "X509None">>}
===============================================================================
