----------------------------- MODULE MCStartup ------------------------------
(* Instances of Startup for TLC. *)
EXTENDS Startup, FiniteSetsExt

(* Every IPv4 network of the given width. *)
MCNetworks == Plain \cup Cidr

Named == {e \in Entry : e.name # Blank}

(* Up to three entries, of one host or of two, and a file that is refused. *)
MCFiles ==
    UNION {kSubset(n, Named) : n \in 0 .. 3}
        \cup {{CHOOSE e \in Entry : e.name = Blank}}
=============================================================================
