-------------------------- MODULE MCRelationships --------------------------
(* Relationships on one service and two workloads in two namespaces: the   *)
(* templates mention it by every form that resolves differently.           *)
EXTENDS Relationships

Db == [ns |-> "shop", name |-> "db"]
MCService == {Db}
MCWorkload == {[ns |-> "shop", name |-> "web"], [ns |-> "blog", name |-> "cms"]}
MCSelectors == {{}, {"app"}}

Text(name, ns, form) == [name |-> name, ns |-> ns, form |-> form]

MCTemplates ==
    {[labels |-> {"app"}, texts |-> <<Text("db", Absent, "url")>>],
     [labels |-> {}, texts |-> <<Text("db", Absent, "bare word"), Text("db", "shop", "bare word"),
                                 Text("db", Absent, "address variable")>>],
     [labels |-> {}, texts |-> <<Text("db", "shop", "host:word"), Text("db", Absent, "host:port")>>]}
=============================================================================
