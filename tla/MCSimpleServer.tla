--------------------------- MODULE MCSimpleServer ---------------------------
(* Instances of SimpleServer for TLC.                                      *)
EXTENDS SimpleServer, TLC

Request(k, m, p) == [kind |-> k, method |-> m, path |-> p]

Simple(f) == [kind |-> "simple", contents |-> f]
User(f) == [kind |-> "user", does |-> f]

\* Two SimpleWidgets with a path in common and a widget of the program, and
\* requests for each and for none, and one cut short.
MCChain == <<Simple("/both" :> 2), Simple("/both" :> 1),
             User("/throw" :> "throw" @@ "/late" :> "sendThrow"
                  @@ "/half" :> "sendDecline")>>
MCRequests == {Request("ok", "GET", "/both"), Request("ok", "POST", "/both"),
               Request("ok", "GET", "/throw"), Request("ok", "GET", "/late"),
               Request("ok", "GET", "/half"), Request("cutheader", "GET", "/both")}

\* One page, a request for it and one that is not HTTP.
MCPlain == <<Simple("/page" :> 2)>>
MCPlainRequests == {Request("ok", "GET", "/page"), Request("bad", "GET", "/page")}

Sym == Permutations(Conns) \cup Permutations(Fds)
=============================================================================
