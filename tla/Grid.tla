-------------------------------- MODULE Grid ---------------------------------
(* The grid of indexes an ann phase builds: what an engine can build          *)
(* (orchestrator/ann_knobs.py), the run groups a profile renders for it under *)
(* a resource pass (ann_pass.render_config), the combinations ann-benchmarks  *)
(* expands them into (ann_config.py), and the overlay that restricts a grid   *)
(* to builds chosen earlier (profile_overlay.py). A build is a record of the  *)
(* axes M, efC and quantization, None where the engine has no such axis.      *)
EXTENDS Manifest, FiniteSetsExt, SequencesExt

BuildAxes == {"M", "efC", "quantization"}
BuildOf(m, efc, quantization) ==
    [M |-> m, efC |-> efc, quantization |-> quantization]
Quantizations == {"none", "scalar", "binary"}

MariadbEngines == {"mariadb", "mariadb123"}
HnswlibEngines == {"myvector", "valkey"}
EfcEngines == {"pgvector", "valkey", "percona", "myvector", "villagesql"}
ModeEngines == {"pgvector", "valkey"}
GridEngines == MariadbEngines \cup EfcEngines \cup {"alisql", "mongodb"}

-----------------------------------------------------------------------------
(* ann_knobs.py                                                               *)

KnobBounds(engine, knob) ==
    CASE knob = "M" /\ engine \in MariadbEngines \cup {"alisql"} -> <<3, 200>>
      [] knob = "M" /\ engine = "pgvector" -> <<2, 100>>
      [] knob = "M" /\ engine = "percona" -> <<2, 200>>
      [] knob = "M" /\ engine \in HnswlibEngines -> <<2, 10000>>
      [] knob = "M" /\ engine = "villagesql" -> <<2, 128>>
      [] knob = "efC" /\ engine = "pgvector" -> <<4, 1000>>
      [] knob = "efC" /\ engine = "percona" -> <<1, 4096>>
      [] knob = "efC" /\ engine = "villagesql" -> <<2, 4096>>
      [] OTHER -> None
HasM(engine) == KnobBounds(engine, "M") # None

KnobProblems(engine, ms, efcs) ==
    LET Outside(knob, value) ==
            /\ KnobBounds(engine, knob) # None
            /\ \/ value < KnobBounds(engine, knob)[1]
               \/ value > KnobBounds(engine, knob)[2]
    IN {<<"M", v>> : v \in {m \in ms : Outside("M", m)}}
       \cup {<<"efC", v>> : v \in {e \in efcs : Outside("efC", e)}}

(* The combinations no server builds as they are written: pgvector and        *)
(* vsql_vector refuse them, hnswlib builds another without a word.            *)
VillagesqlEfcFactor == 32
Excluded(engine, m, efc) ==
    \/ engine = "pgvector" /\ efc < 2 * m
    \/ engine \in HnswlibEngines /\ efc < m
    \/ engine = "villagesql" /\ ~ (m <= efc /\ efc <= VillagesqlEfcFactor * m)
ExcludedBuilds(engine, ms, efcs) ==
    {p \in ms \X efcs : Excluded(engine, p[1], p[2])}

(* A run group: the product of its lists is what it builds.                   *)
Group(ms, efcs, quantizations, storage, mode) ==
    [ms |-> ms, efcs |-> efcs, quantizations |-> quantizations,
     storage |-> storage, mode |-> mode]
Refused(why) == [refused |-> why, groups |-> {}]
Rendered(groups) == [refused |-> None, groups |-> groups]

(* One group where every combination can be built, one per efC otherwise: a   *)
(* product cannot leave a combination out. A value of either axis that would  *)
(* take part in no build at all is refused.                                   *)
EfcRunGroups(engine, ms, efcs, mode) ==
    LET excluded == ExcludedBuilds(engine, ms, efcs)
        Legal(efc) == {m \in ms : <<m, efc>> \notin excluded}
    IN IF excluded = {} THEN Rendered({Group(ms, efcs, {None}, None, mode)})
       ELSE IF \E m \in ms : {m} \X efcs \subseteq excluded
               \/ \E e \in efcs : Legal(e) = {}
       THEN Refused("a value no build can use")
       ELSE Rendered({Group(Legal(e), {e}, {None}, None, mode) : e \in efcs})

-----------------------------------------------------------------------------
(* ann_pass.py. A profile lists an axis for everyone, for one engine, and in  *)
(* the extras that only the tuned pass applies.                               *)
AnnMValues(engine, profile, pass) ==
    LET byEngine == IF pass = "tuned" /\ engine \in DOMAIN profile.extras.m
                    THEN profile.extras.m ELSE profile.mByEngine
    IN IF engine \in DOMAIN byEngine THEN byEngine[engine] ELSE profile.m
EfcValues(engine, profile, pass) ==
    IF pass = "tuned" /\ engine \in DOMAIN profile.extras.efc
    THEN profile.extras.efc[engine] ELSE {profile.efc}
QuantizationValues(profile, pass) ==
    IF pass = "tuned" /\ profile.extras.quantization # << >>
    THEN ToSet(profile.extras.quantization) ELSE {profile.quantization}
StorageEngines(engine, profile, pass) ==
    IF engine \notin MariadbEngines THEN {"InnoDB"}
    ELSE IF pass = "tuned" /\ profile.extras.storages # {}
    THEN profile.extras.storages ELSE profile.storages

Together(rendered) ==
    IF \E r \in rendered : r.refused # None
    THEN CHOOSE r \in rendered : r.refused # None
    ELSE Rendered(UNION {r.groups : r \in rendered})

(* The groups of an engine with an efC axis: one set of them per build mode,  *)
(* where the engine has any.                                                  *)
EfcGroups(engine, profile, pass) ==
    LET ms == AnnMValues(engine, profile, pass)
        efcs == EfcValues(engine, profile, pass)
        modes == IF engine \in ModeEngines THEN profile.modes ELSE {None}
    IN IF KnobProblems(engine, {}, efcs) # {} THEN Refused("efC out of range")
       ELSE IF engine = "percona" /\ profile.perconaModes # {"post"}
       THEN Refused("no build mode in the module")
       ELSE Together({EfcRunGroups(engine, ms, efcs, mode) : mode \in modes})

(* MongoDB has no M to sweep: its groups take the first of the list.          *)
PlainGroups(engine, profile, pass) ==
    LET ms == AnnMValues(engine, profile, pass)
    IN IF engine = "mongodb"
       THEN Rendered({Group({Min(ms)}, {None}, {q}, None, None) :
                          q \in QuantizationValues(profile, pass)})
       ELSE Rendered({Group(ms, {None}, {None}, s, None) :
                          s \in StorageEngines(engine, profile, pass)})

(* ann_config.py: what ann-benchmarks makes of a group, and of a grid.        *)
Combinations(group) ==
    {BuildOf(m, e, q) : m \in group.ms, e \in group.efcs,
                        q \in group.quantizations}
Definitions(rendered) ==
    UNION {{[build |-> b, storage |-> g.storage, mode |-> g.mode] :
               b \in Combinations(g)} : g \in rendered.groups}

(* The combinations an overlay names, each in a group of its own; all of them *)
(* have to be in the grid. An axis a chosen build leaves out matches any.     *)
Agrees(build, chosen) ==
    \A axis \in BuildAxes : chosen[axis] \in {None, build[axis]}
RestrictToBuilds(rendered, chosen) ==
    LET kept == {k \in UNION {{g} \X Combinations(g) : g \in rendered.groups} :
                     \E c \in chosen : Agrees(k[2], c)}
    IN IF \E c \in chosen : \A k \in kept : ~ Agrees(k[2], c)
       THEN Refused("a build the grid does not contain")
       ELSE Rendered({Group({k[2].M}, {k[2].efC}, {k[2].quantization},
                            k[1].storage, k[1].mode) : k \in kept})

RenderConfig(engine, profile, pass) ==
    LET all == IF engine \in EfcEngines THEN EfcGroups(engine, profile, pass)
                                        ELSE PlainGroups(engine, profile, pass)
    IN IF engine \notin GridEngines THEN Refused("unknown engine")
       ELSE IF KnobProblems(engine, AnnMValues(engine, profile, pass), {}) # {}
       THEN Refused("M out of range")
       ELSE IF all.refused = None /\ pass = "tuned"
               /\ engine \in DOMAIN profile.extras.builds
       THEN RestrictToBuilds(all, profile.extras.builds[engine])
       ELSE all

(* estimate_grid.ann_builds: the distinct indexes of the grid.                *)
AnnBuilds(engine, profile, pass) ==
    {d.build : d \in Definitions(RenderConfig(engine, profile, pass))}

(* The combinations the rendered grid leaves out because they cannot be       *)
(* built: what the run prints before it starts.                               *)
ExcludedAnnBuilds(engine, profile, pass) ==
    LET groups == RenderConfig(engine, profile, pass).groups
    IN IF \E g \in groups : g.efcs = {None} THEN {}
       ELSE ExcludedBuilds(engine, UNION {g.ms : g \in groups},
                           UNION {g.efcs : g \in groups})

-----------------------------------------------------------------------------
(* profile_overlay.py. An overlay replaces lists of the tuned pass and        *)
(* nothing else; its digest covers the lists and the selection they came      *)
(* from.                                                                      *)
OverlayDigest(extras, selection) == <<extras, selection>>
OverlayProblems(overlay, profileName) ==
    (IF overlay.of = profileName THEN {} ELSE {"another profile's"})
    \cup (IF \E e \in DOMAIN overlay.extras.m :
                \/ e \notin GridEngines
                \/ overlay.extras.m[e] = {}
                \/ KnobProblems(e, overlay.extras.m[e], {}) # {}
          THEN {"M"} ELSE {})
    \cup (IF \E e \in DOMAIN overlay.extras.efc :
                \/ overlay.extras.efc[e] = {}
                \/ KnobProblems(e, {}, overlay.extras.efc[e]) # {}
          THEN {"efC"} ELSE {})
    \cup (IF ToSet(overlay.extras.quantization) \subseteq Quantizations THEN {}
                                                    ELSE {"quantization"})
    \cup (IF \E e \in DOMAIN overlay.extras.builds :
                e \notin GridEngines \/ overlay.extras.builds[e] = {}
          THEN {"builds"} ELSE {})
    \cup (IF overlay.selection = None THEN {"no provenance"}
          ELSE IF overlay.digest # OverlayDigest(overlay.extras, overlay.selection)
          THEN {"edited"} ELSE {})

(* deep_merge: a list of the overlay replaces the profile's of that name.     *)
ApplyOverlay(profile, overlay) ==
    [profile EXCEPT
        !.extras.m = overlay.extras.m @@ @,
        !.extras.efc = overlay.extras.efc @@ @,
        !.extras.builds = overlay.extras.builds @@ @,
        !.extras.quantization = IF overlay.extras.quantization = << >> THEN @
                                ELSE overlay.extras.quantization]
=============================================================================
