------------------------------- MODULE SiteMC -------------------------------
(* An instance of Site for TLC. *)
EXTENDS Site

CONSTANTS alice, bob, carol, guild, r1, n1

Kinds == {"accounts", "factors", "admin", "orgs", "teams", "repos", "imports", "copies", "limiter",
          "hub", "notices", "issues", "batches", "github", "exits"}

Load(loads) == [k \in Kinds |-> IF k \in DOMAIN loads THEN loads[k] ELSE 0]

\* What is sent at most: much to one component, or a little to some that meet.
Mixtures == {
    Load("accounts" :> 3 @@ "github" :> 1),
    Load("accounts" :> 2 @@ "admin" :> 1),
    Load("factors" :> 4 @@ "exits" :> 1),
    Load("factors" :> 1 @@ "admin" :> 1),
    Load("factors" :> 2 @@ "accounts" :> 2),
    Load("admin" :> 2 @@ "accounts" :> 1),
    Load("orgs" :> 4),
    Load("orgs" :> 3 @@ "admin" :> 1),
    Load("teams" :> 3),
    Load("teams" :> 2 @@ "orgs" :> 1),
    Load("repos" :> 4),
    Load("repos" :> 3 @@ "exits" :> 1),
    Load("repos" :> 2 @@ "admin" :> 1),
    Load("imports" :> 1 @@ "admin" :> 1),
    Load("imports" :> 1 @@ "repos" :> 2),
    Load("imports" :> 1 @@ "repos" :> 1 @@ "exits" :> 1),
    Load("imports" :> 1 @@ "copies" :> 1 @@ "batches" :> 1),
    Load("limiter" :> 4 @@ "exits" :> 1),
    Load("issues" :> 2 @@ "batches" :> 2),
    Load("issues" :> 1 @@ "repos" :> 1 @@ "batches" :> 1),
    Load("issues" :> 2 @@ "hub" :> 1),
    Load("issues" :> 1 @@ "hub" :> 2),
    Load("issues" :> 1 @@ "hub" :> 1 @@ "exits" :> 1),
    Load("notices" :> 1 @@ "issues" :> 1),
    Load("notices" :> 1 @@ "hub" :> 1 @@ "admin" :> 1)}

\* What is there at the start for those who ask for it: an organization, a
\* repository of alice's, a login that waits for its second factor, two browsers
\* at GitHub.
StartsSmall ==
    /\ left["orgs"] + left["teams"] = 0 => \A o \in OrgIds : org[o] = None
    /\ \A r \in RepoIds :
        repo[r] # NoRepo <=> /\ r = r1
                             /\ left["issues"] + left["notices"] + left["repos"] > 0
    /\ repo[r1] # NoRepo => Path(r1) = <<alice, n1>>
    /\ \A p \in Pendings :
        pending[p] # NoPending <=> left["factors"] > 0 /\ left["accounts"] = 0
    /\ states = IF left["accounts"] = 2 /\ left["admin"] = 1 THEN 2 ELSE 0

SmallInit == Init /\ StartsSmall

SmallSpec == SmallInit /\ [][Next]_siteVars

AnyCall == Permutations(Calls)
=============================================================================
