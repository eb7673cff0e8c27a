----------------------------- MODULE MCServices -----------------------------
(***************************************************************************)
(* The instance of Services that TLC checks.                               *)
(***************************************************************************)
EXTENDS Services

\* b is in the root directory, c in a.
MCParent == [d \in {"a", "b", "c"} |-> IF d = "c" THEN "a" ELSE "root"]

Url(scheme, www, name, port, path) ==
    [scheme |-> scheme, host |-> [www |-> www, name |-> name], port |-> port, path |-> path]

Repo(url, provider) == [url |-> url, provider |-> provider]

\* Two providers on one host, one repository inside the path of the other.
Outer == Repo(Url("https", 0, "x", 0, <<"p">>), "p1")
Inner == Repo(Url("https", 0, "x", 0, <<"p", "q">>), "p2")
\* Behind www., on another port, of an unknown provider, and on http.
Www == Repo(Url("https", 1, "x", 443, <<"q">>), "p1")
OtherPort == Repo(Url("https", 0, "x", 8443, <<"q">>), "p2")
Unknown == Repo(Url("http", 0, "y", 0, <<"p">>), "p3")
Plain == Repo(Url("http", 0, "y", 80, <<"p">>), "p2")

Configuration(isAnonymous, complete, repositories) ==
    [anonymous |-> isAnonymous, complete |-> complete, providers |-> {"p1", "p2"},
     repositories |-> repositories]

MCConfigs ==
    {Configuration(FALSE, TRUE, rs) :
        rs \in {<<Outer, Inner>>, <<Inner, Outer>>, <<Www, OtherPort>>,
                <<OtherPort, Unknown>>, <<Plain, Outer>>}}
    \cup {Configuration(TRUE, FALSE, <<Outer>>), Configuration(FALSE, FALSE, <<Outer>>)}

MCUrls ==
    {Url(scheme, www, name, port, path) :
        scheme \in {"http", "https"}, www \in {0, 1, 2}, name \in {"x", "y"},
        port \in {0, 443, 8443}, path \in {<<"p">>, <<"p", "q">>, <<"q">>}}

MCContainers == <<"git-proxy", "jupyter-server">>

MCInits == <<"git-clone">>

MCCodes ==
    [c \in {"git-proxy", "jupyter-server", "git-clone"} |->
        CASE c = "git-proxy" -> {"1"}
          [] c = "jupyter-server" -> {"0", "127", "137"}
          [] c = "git-clone" -> {"0", "203"}]

=============================================================================
