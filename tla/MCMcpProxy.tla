------------------------------ MODULE MCMcpProxy ------------------------------
(* McpProxy for TLC: a server with a limit on one tool, one with a limit of   *)
(* its own that forwards id_tokens, one whose limit only reports, and one     *)
(* that is open; two users of one client and an anonymous token.             *)
EXTENDS McpProxy, TLC

CONSTANTS limited, plain, gauged, open, gone, u1, u2, c1, get, put, r1, r2

MCNamespaces == {limited, plain, gauged, open}

MCAllLimit == limited :> 0 @@ plain :> 1 @@ gauged :> 1 @@ open :> 0

MCToolLimit == [n \in MCNamespaces |-> [t \in Tools |-> IF n = limited /\ t = put THEN 1 ELSE 0]]

Tok(ns, user) == [ns |-> ns, user |-> user, client |-> c1, good |-> TRUE, id |-> ns = plain]

Post(ns, bearer, body) == [ns |-> ns, bearer |-> bearer, method |-> "POST", body |-> body]

\* Calls that meet the limits, from two users and an anonymous one.
LimitInputs ==
  { Post(limited, Tok(limited, u), put) : u \in {u1, u2, NoUser} }
  \cup { Post(plain, Tok(plain, u), get) : u \in {u1, u2} }
  \cup { Post(gauged, Tok(gauged, u1), get) }

\* One request of every other kind.
KindInputs ==
  { Post(gone, NoToken, "request"),
    Post(plain, NoToken, "request"),
    Post(plain, [Tok(plain, u1) EXCEPT !.good = FALSE], "request"),
    Post(plain, Tok(limited, u1), "request"),
    Post(plain, [Tok(plain, u1) EXCEPT !.id = FALSE], "request"),
    [Post(plain, Tok(plain, u1), "request") EXCEPT !.method = "GET"],
    Post(limited, Tok(limited, u1), "notification"),
    Post(limited, Tok(limited, NoUser), "malformed"),
    Post(open, NoToken, get) }

MCInputs == LimitInputs \cup KindInputs

MCAnswers ==
  {[content |-> "json", msgs |-> <<m>>] : m \in {"answer", "no response"}} \cup
  {[content |-> "stream", msgs |-> s] :
     s \in {<<>>} \cup {<<m>> : m \in Messages} \cup {<<m, "answer">> : m \in Messages}} \cup
  {[content |-> "other", msgs |-> <<>>], [content |-> "none", msgs |-> <<>>]}

=============================================================================
