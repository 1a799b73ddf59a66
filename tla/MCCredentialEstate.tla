--------------------------- MODULE MCCredentialEstate ---------------------------
\* Instances of CredentialEstate for TLC.
EXTENDS CredentialEstate

\* Every row of every workload, absent.
Empty ==
    [row \in {Singleton, Material, Parent("p")} \cup {Credential(c) : c \in Cred}
             \cup {Assignment(a) : a \in {"a1", "a2", "a3"}}
             \cup {Service(s) : s \in {"s0", "s1", "s2"}}
             \cup {Address(i) : i \in {"i0", "i1", "i2"}} |-> {}]

Under(prefix) == Singleton :> {[pk |-> <<"first", 0>>, prefix |-> prefix]}
Of(c, prefix) == Credential(c) :> {[prefix |-> prefix, source |-> "none"]}
On(a, c, target) == Assignment(a) :> {[cred |-> c, target |-> target]}
Host == Parent("p") :> {[primary |-> {}]}
Numbered == Parent("p") :> {[primary |-> {"i0"}]} @@ Address("i0") :> {[cidr |-> "x"]}
Identity == Material :> {[revision |-> 1, fields |-> [f \in Field |-> 0]]}
Ssh == Service("s0") :> {[parent |-> "p", name |-> "ssh", ports |-> {"ssh"}, addresses |-> {}]}

Set(prefix) == [kind |-> "configure", prefix |-> prefix]
Delete1(c) == [kind |-> "delete", cred |-> c]
New(c) == [kind |-> "create", cred |-> c]
Move(a, c) == [kind |-> "reassign", assignment |-> a, cred |-> c]
Add(a, c, target) == [kind |-> "assign", assignment |-> a, cred |-> c, target |-> target]
Drop(a) == [kind |-> "unassign", assignment |-> a]
Reveal(c, a) == [kind |-> "reveal", service |-> "s0", cred |-> c, assignment |-> a]
Connect(port, n, existing, name, hidden) ==
    [kind |-> "quickadd", parent |-> "p", name |-> name, port |-> port, cidr |-> "x",
     existing |-> existing, hidden |-> {Address(i) : i \in hidden},
     address |-> IF existing THEN "none" ELSE IF n = 1 THEN "i1" ELSE "i2",
     service |-> IF n = 1 THEN "s1" ELSE "s2", assignment |-> IF n = 1 THEN "a1" ELSE "a2",
     cred |-> IF existing THEN "c3" ELSE IF n = 1 THEN "c1" ELSE "c2"]
Quick(port, n, existing) == Connect(port, n, existing, "ssh", {})
Secret(source, c, a, target) == [source |-> source, cred |-> c, assignment |-> a, target |-> target]
Import(items) == [kind |-> "import", items |-> items]
Renew(fields, value) == [kind |-> "rotate", fields |-> fields, value |-> value]
Use(broker, calls) == [kind |-> "call", broker |-> broker, calls |-> calls]

Serve(rows, jobs1, jobs2, jobs3) ==
    [rows |-> rows @@ Empty,
     jobs |-> [w \in Worker |-> CASE w = "w1" -> jobs1 [] w = "w2" -> jobs2 [] OTHER -> jobs3]]

Two == Of("c1", "default") @@ Of("c2", "default")

MCWorkloads ==
    {Serve(Empty, <<Set("a")>>, <<New("c2")>>, <<Set("default")>>),
     Serve(Empty, <<Set("a"), New("c1")>>, <<New("c2")>>, <<>>),
     Serve(Under("a"), <<Set("default")>>, <<New("c1")>>, <<[kind |-> "unset"]>>),
     Serve(Under("a"), <<Set("default")>>, <<[kind |-> "unset"], Set("a")>>, <<>>),
     Serve(Two @@ On("a1", "c1", "s0"), <<Move("a1", "c2")>>, <<Add("a2", "c1", "s1")>>,
           <<Drop("a1")>>),
     Serve(Two @@ On("a1", "c1", "s0"), <<Move("a1", "c2")>>, <<Drop("a1")>>, <<>>),
     Serve(Two @@ On("a1", "c1", "s0") @@ Ssh,
           <<Delete1("c1")>>, <<Add("a2", "c1", "s1")>>, <<Reveal("c1", "a1")>>),
     Serve(Two @@ On("a1", "c2", "s0") @@ Ssh, <<Delete1("c1")>>, <<Move("a1", "c1")>>, <<>>),
     Serve(Host @@ Of("c3", "default"), <<Quick("ssh", 1, TRUE)>>, <<Quick("alt", 2, TRUE)>>, <<>>),
     Serve(Host, <<Quick("ssh", 1, FALSE)>>, <<Quick("alt", 2, FALSE)>>, <<>>),
     Serve(Host @@ Ssh @@ Of("c3", "default"),
           <<Quick("alt", 1, TRUE)>>, <<Quick("ssh", 2, FALSE)>>, <<Reveal("c3", "a1")>>),
     Serve(Host, <<Connect("ssh", 1, FALSE, "ssh", {})>>,
           <<Connect("ssh", 2, FALSE, "bastion ssh", {})>>, <<>>),
     Serve(Numbered, <<Connect("ssh", 1, FALSE, "ssh", {"i0"})>>,
           <<Connect("ssh", 2, FALSE, "bastion ssh", {})>>, <<>>),
     Serve(Numbered @@ Of("c3", "default"), <<Connect("ssh", 1, TRUE, "ssh", {"i0"})>>,
           <<Connect("alt", 2, FALSE, "ssh", {"i0"})>>, <<>>),
     Serve(Numbered @@ Of("c3", "default"), <<Connect("ssh", 1, TRUE, "ssh", {})>>,
           <<Connect("alt", 2, FALSE, "bastion ssh", {"i0", "i2"})>>, <<>>),
     Serve(Empty, <<Import(<<Secret("x", "c1", "a1", "s0"), Secret("y", "c2", "a2", "none")>>)>>,
           <<Import(<<Secret("x", "c3", "a3", "s0")>>)>>, <<>>),
     Serve(Identity, <<Renew({"role"}, 1)>>, <<Renew({"secret"}, 2)>>, <<Use(FALSE, 1)>>),
     Serve(Identity, <<Renew({"role"}, 1)>>, <<>>, <<Use(FALSE, 2), Use(FALSE, 1)>>),
     Serve(Identity, <<Renew({"role"}, 1)>>, <<[kind |-> "withdraw"]>>, <<Use(TRUE, 2)>>),
     Serve(Identity, <<Renew({"role"}, 1)>>, <<[kind |-> "reencrypt"]>>, <<>>)}

================================================================================
