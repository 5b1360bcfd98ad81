--------------------------- MODULE MCHostCommands ---------------------------
EXTENDS HostCommands

\* h2 is listed by a service and not configured; h3 is configured and not web's.
MCServices ==
    [web |-> [hosts |-> <<"h1", "h2", "h4">>, actions |-> {"status", "restart", "list"}],
     db  |-> [hosts |-> << >>, actions |-> {"status", "vacuum"}]]

MCAllowed == [h \in Hosts |-> IF h = "h1" THEN {<<"uptime">>} ELSE {}]

Words == {"web", "db", "--host", "h1", "h2", "h3"}

\* Lines of up to three words, and those with two flags.
ServiceArgs == BoundedSeq(Words, 3)
                 \cup {<<"--host", h, "--host", g, s>> : h, g \in {"h1", "h3"}, s \in {"web", "db"}}

MCLines ==
    [name : {"service"}, action : {"status", "restart", "list", "vacuum"}, args : ServiceArgs]
      \cup [name : {"ssh"}, action : {""}, args : BoundedSeq({"h1", "h2", "h3", "uptime"}, 2)]
      \cup [name : {"kubectl", "runbook"}, action : {""}, args : BoundedSeq({"get", "odd"}, 2)]
=============================================================================
