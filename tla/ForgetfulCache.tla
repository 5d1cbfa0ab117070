--------------------------- MODULE ForgetfulCache ---------------------------
(***************************************************************************)
(* What the handlers of ProxyHandler see of the memory cache: a put takes  *)
(* place at one moment, and at that moment or any other the cache may      *)
(* forget whatever it likes, the entry just put included.  It never        *)
(* invents an entry and never gives back an old one.                       *)
(***************************************************************************)

CONSTANTS Keys, Contents, None

VARIABLE content

Init == content = [k \in Keys |-> None]

Forgetting(m, evicted) == [k \in Keys |-> IF k \in evicted THEN None ELSE m[k]]

Put(k, c) ==
  \E evicted \in SUBSET Keys :
    content' = Forgetting([content EXCEPT ![k] = c], evicted)

Forget == \E evicted \in SUBSET Keys : content' = Forgetting(content, evicted)

Next == Forget \/ \E k \in Keys, c \in Contents : Put(k, c)

Spec == Init /\ [][Next]_content

=============================================================================
