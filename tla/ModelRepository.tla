--------------------------- MODULE ModelRepository ---------------------------
(***************************************************************************)
(* Finding the models to load (model_repository/repository.rs): the local  *)
(* directory and the S3 bucket.                                            *)
(*                                                                         *)
(* A repository is [dirs, strays]: the model directories by name and the   *)
(* names of plain files beside them.  A directory is [config, versions]:   *)
(* the config.yaml at its root and, by version number, the config.yaml and *)
(* the model.onnx of each version directory.  A config.yaml is missing     *)
(* ("none"), parses ("good") or does not ("bad").                          *)
(***************************************************************************)
EXTENDS Integers, FiniteSets, FiniteSetsExt

Failed == [version |-> 0, config |-> "none"]

\* Fault: the first version found is kept.
OldestVersion(dir) == Min(DOMAIN dir.versions)

LatestVersion(dir) == Max(DOMAIN dir.versions)

\* LocalModelRepository::load_model: the version's config.yaml comes first.
LocalModel(dir) ==
    IF DOMAIN dir.versions = {} THEN Failed
    ELSE LET v    == LatestVersion(dir)
             own  == dir.versions[v].config
             file == IF own # "none" THEN own ELSE dir.config
         IN  IF file = "good" /\ dir.versions[v].onnx
             THEN [version |-> v,
                   config  |-> IF own # "none" THEN "version" ELSE "root"]
             ELSE Failed

\* ModelRepository::load_model: the config.yaml at the root of the model.
S3Model(dir) ==
    IF dir.config # "good" \/ DOMAIN dir.versions = {} THEN Failed
    ELSE LET v == LatestVersion(dir)
         IN  IF dir.versions[v].onnx THEN [version |-> v, config |-> "root"]
             ELSE Failed

\* Every directory is loaded, then main drops what was not asked for.
LocalModels(repo) ==
    [name \in DOMAIN repo.dirs |-> LocalModel(repo.dirs[name])]

\* Keys are filtered first; a plain file counts as a model without config.
S3Models(repo, wanted) ==
    [name \in (DOMAIN repo.dirs \cup repo.strays) \cap wanted |->
        IF name \in DOMAIN repo.dirs THEN S3Model(repo.dirs[name]) ELSE Failed]

load_all(source, repo, wanted) ==
    IF source = "local" THEN LocalModels(repo) ELSE S3Models(repo, wanted)

\* `?` in the loops: one model that fails is an error of load_all.
LoadFails(models) == \E name \in DOMAIN models : models[name] = Failed
==============================================================================
