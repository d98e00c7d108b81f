---- MODULE MCParts ----
\* Modules that share nothing: one is chosen at the start and runs, and the
\* others stand still in one of their initial states.
EXTENDS Grants, Uploads, DiscardWindow, MCTagging, SourcePace, ReadingChain, Sweeps, Cataloguing

CONSTANTS k1, r1, r2, r3
VARIABLE part

MCPages == {k1}
MCRequests == {r1, r2, r3}

partVars == <<grantVars, uploadVars, windowVars, tagVars, paceVars, chainVars, sweepVars, catalogueVars>>

\* What a part that stands still starts as.
StandsStill ==
  /\ part # "tags" => isbn = [b \in Books |-> NoIsbn] /\ tags = [b \in Books |-> {}]
                     /\ vocabulary = {"genre"} \X Genres
  /\ part # "sweeps" => pending = {}
  /\ part # "catalogue" => DOMAIN names = Printed

\* Numbers are alike, and so are names: one of each stands for any.
FirstBook == catalogued[Old].isbn = "one" /\ catalogued[Old].credit = "ann"

PartsInit ==
  /\ part \in {"grants", "uploads", "window", "tags", "pace", "chain", "sweeps", "catalogue"}
  /\ GrantsInit /\ UploadsInit /\ WindowInit /\ TagInit /\ PaceInit /\ ChainInit /\ SweepInit
  /\ CatalogueInit /\ FirstBook
  /\ StandsStill

PartsNext ==
  /\ UNCHANGED part
  /\ \/ part = "grants" /\ GrantsNext
        /\ UNCHANGED <<uploadVars, windowVars, tagVars, paceVars, chainVars, sweepVars, catalogueVars>>
     \/ part = "uploads" /\ UploadsNext
        /\ UNCHANGED <<grantVars, windowVars, tagVars, paceVars, chainVars, sweepVars, catalogueVars>>
     \/ part = "window" /\ WindowNext
        /\ UNCHANGED <<grantVars, uploadVars, tagVars, paceVars, chainVars, sweepVars, catalogueVars>>
     \/ part = "tags" /\ TagNext
        /\ UNCHANGED <<grantVars, uploadVars, windowVars, paceVars, chainVars, sweepVars, catalogueVars>>
     \/ part = "pace" /\ PaceNext
        /\ UNCHANGED <<grantVars, uploadVars, windowVars, tagVars, chainVars, sweepVars, catalogueVars>>
     \/ part = "chain" /\ ChainNext
        /\ UNCHANGED <<grantVars, uploadVars, windowVars, tagVars, paceVars, sweepVars, catalogueVars>>
     \/ part = "sweeps" /\ SweepNext
        /\ UNCHANGED <<grantVars, uploadVars, windowVars, tagVars, paceVars, chainVars, catalogueVars>>
     \/ part = "catalogue" /\ CatalogueNext
        /\ UNCHANGED <<grantVars, uploadVars, windowVars, tagVars, paceVars, chainVars, sweepVars>>

PartsSpec == PartsInit /\ [][PartsNext]_<<part, partVars>>
====
