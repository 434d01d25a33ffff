------------------------- MODULE CapabilityInference -------------------------
(***************************************************************************)
(* What CapabilityRegistry concludes from the three answers of a probe:    *)
(* the routes of /remote/info, the engine version, and whether Python is   *)
(* available (src/src/capability_registry.cpp).                            *)
(***************************************************************************)
EXTENDS Naturals, VersionText

Capabilities ==
    {"ObjectCall", "ObjectProperty", "Info", "Batch", "SearchAssets",
     "DescribeObject", "PropertyArrayOps", "Presets", "PythonScripting",
     "PieControl", "Thumbnail"}

\* Route prefixes the inference looks for, named by the capability they prove.
Routes == {"Batch", "SearchAssets", "DescribeObject", "Presets", "Thumbnail",
           "PropertyArrayOps"}

\* EngineVersion, all zeros while unknown.
Unknown == [major |-> 0, minor |-> 0, patch |-> 0]

known(v) == v.major # 0

at_least(v, mj, mn) == v.major > mj \/ (v.major = mj /\ v.minor >= mn)

(***************************************************************************)
(* The capabilities after a probe: info says whether /remote/info answered *)
(* with success and an object, routes which ones it listed, version is     *)
(* Unknown when that query failed, python FALSE when it failed or said no. *)
(***************************************************************************)
infer_from_version(info, routes, version, python) ==
    LET v426 == IF known(version) THEN at_least(version, 4, 26) ELSE info
        v5 == known(version) /\ at_least(version, 5, 0)
    IN  {"ObjectCall", "ObjectProperty"}
        \cup (IF info THEN {"Info"} ELSE {})
        \cup (IF python THEN {"PythonScripting"} ELSE {})
        \cup (IF v426 THEN {"Batch", "SearchAssets", "DescribeObject", "Presets",
                            "Thumbnail"} ELSE {})
        \cup (IF v5 THEN {"PropertyArrayOps", "PieControl"} ELSE {})
        \cup routes
=============================================================================
