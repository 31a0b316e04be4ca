--------------------------- MODULE MCBlastRadius ---------------------------
(***************************************************************************)
(* BlastRadius for TLC: the Deployment `web` with a pod, a Secret whose    *)
(* name is like theirs, and a StorageClass, which no snapshot asks for.    *)
(***************************************************************************)
EXTENDS BlastRadius, TLC

Web == [kind |-> "Deployment", namespace |-> "shop", name |-> "web"]
WebPod == [kind |-> "Pod", namespace |-> "shop", name |-> "web-7f-x"]
WebCert == [kind |-> "Secret", namespace |-> "shop", name |-> "web-cert"]
Fast == [kind |-> "StorageClass", namespace |-> None, name |-> "fast"]

Resources == {Web, WebPod, WebCert, Fast}
Kept == (WebPod :> Web)
Setup == {Web, WebCert, Fast}

Patterns == [web |-> {"web"}, webAny |-> {"web", "web-7f-x", "web-cert"}]
Entry(kind, name) == [kind |-> kind, namespace |-> "shop", name |-> name]

Declared == {{Entry("Deployment", "webAny")}, {Entry(None, "webAny")}, {}}
\* What is declared is only compared.
Interchangeable == Permutations(Specs)

Exact == {{Entry("Deployment", "web")}}
=============================================================================
