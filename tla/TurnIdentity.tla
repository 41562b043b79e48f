---------------------------- MODULE TurnIdentity ----------------------------
(***************************************************************************)
(* Phase 2 of a turn as a function: what an action declares about its      *)
(* capabilities is resolved (kernel/capability_snapshot_resolver.py),      *)
(* frozen into a snapshot with a canonical hash                            *)
(* (kernel/capability_snapshot.py), and the hash goes into the dispatch    *)
(* key (kernel/idempotency_key_policy.py, _build_turn_identity).           *)
(*                                                                         *)
(* Identifiers are texts, sequences of characters that are joined by       *)
(* colons as the f-strings do.  Hash is SHA-256 over canonical JSON, in    *)
(* which records and sets stand for objects with sorted keys and sorted    *)
(* lists; Decimal is str of an int.  An action's other inputs are taken in *)
(* the canonical form _canonicalize_json gives them.                       *)
(***************************************************************************)
EXTENDS Sequences, Integers

CONSTANTS Char, Colon,      \* characters
          Hash(_),          \* hexdigest of a canonical payload
          HashLength,       \* its number of characters
          Decimal(_),       \* the decimal text of an integer
          Dispatch,         \* the namespace, "dispatch"
          PolicyDefault,    \* "policy:default"
          StrictMode,       \* "strict"
          None,             \* null, and a value of an unexpected type
          Absent,           \* a list that is not declared
          Refused           \* CapabilitySnapshotBuildError

Text == Seq(Char)

Scalars == {"tenant_policy_ref", "permission_mode", "context_binding_ref",
            "context_content_hash", "budget_ref", "quota_ref", "session_mode",
            "approval_state"}
DigestFields == {"bundle_ref", "semantics_version", "content_hash", "compile_hash"}
Bindings == {"tool_bindings", "mcp_bindings", "skill_bindings"}
Lists == Bindings \cup {"feature_flags"}

(***************************************************************************)
(* A declared capability_snapshot_input: each field inside its group       *)
(* object (policy, approval, budget, ...) and flat beside the groups.  The *)
(* digest says what declarative_bundle_digest itself is.                   *)
(***************************************************************************)
ListValue == Seq(Text \cup {None}) \cup {None, Absent}

Payload == [group     : [Scalars \cup DigestFields -> Text \cup {None}],
            flat      : [Scalars \cup DigestFields -> Text \cup {None}],
            groupList : [Lists -> ListValue],
            flatList  : [Lists -> ListValue],
            digest    : {"absent", "object", "other"}]

NoPayload == [group     |-> [f \in Scalars \cup DigestFields |-> None],
              flat      |-> [f \in Scalars \cup DigestFields |-> None],
              groupList |-> [f \in Lists |-> Absent],
              flatList  |-> [f \in Lists |-> Absent],
              digest    |-> "absent"]

(* A TurnInput with the action it is about, inputs and tags left abstract. *)
IsTurn(t) ==
  /\ t.run \in Text /\ t.action \in Text
  /\ t.offset \in Int
  /\ t.declared \in Payload \cup {None}
-----------------------------------------------------------------------------
FirstNonEmpty(x, y) ==
  IF x \notin {None, <<>>} THEN x
  ELSE IF y \notin {None, <<>>} THEN y ELSE None

(* The order and number of the items does not survive the builder below.   *)
AsStrList(v) ==
  IF v \in {None, Absent} THEN {}
  ELSE {v[i] : i \in DOMAIN v} \ {None, <<>>}

DefaultScalars ==
  [f \in Scalars |-> CASE f = "tenant_policy_ref" -> PolicyDefault
                       [] f = "permission_mode"   -> StrictMode
                       [] OTHER                   -> None]

ScalarOf(p, f) ==
  LET declared == FirstNonEmpty(p.group[f], p.flat[f])
  IN  IF declared = None THEN DefaultScalars[f] ELSE declared

(* A list inside capability_bindings wins whatever it holds; feature flags *)
(* are read flat.                                                          *)
ListOf(p, f) ==
  AsStrList(IF f \in Bindings /\ p.groupList[f] # Absent
            THEN p.groupList[f] ELSE p.flatList[f])

(* All four fields of a bundle digest, or none.                            *)
ResolveDeclarativeBundleDigest(p) ==
  LET digest == [f \in DigestFields |->
                   FirstNonEmpty(IF p.digest = "object" THEN p.group[f] ELSE None, p.flat[f])]
      missing == {f \in DigestFields : digest[f] = None}
  IN  IF p.digest = "other" THEN Refused
      ELSE IF missing = DigestFields THEN None
      ELSE IF missing = {} THEN digest ELSE Refused

(* ActionPayloadCapabilitySnapshotInputResolver.resolve.                   *)
Resolve(c, t) ==
  LET p == IF t.declared = None THEN NoPayload ELSE t.declared
      d == ResolveDeclarativeBundleDigest(p)
  IN  IF \/ c.strict /\ t.declared = None
         \/ d = Refused
         \/ c.bundled /\ d = None
      THEN Refused
      ELSE [run     |-> t.run,
            offset  |-> t.offset,
            scalars |-> [f \in Scalars |-> ScalarOf(p, f)],
            lists   |-> [f \in Lists |-> ListOf(p, f)],
            digest  |-> d]

(* _resolve_snapshot_input: the engine's own reading, of flat fields only, *)
(* when it was built without a resolver.  A null or a value of another     *)
(* type, which this reading turns into other text or an error, is left out *)
(* here: None is a field that is missing.                                  *)
ResolveSnapshotInput(c, t) ==
  IF c.resolver THEN Resolve(c, t)
  ELSE IF t.declared # None
  THEN [run     |-> t.run,
        offset  |-> t.offset,
        scalars |-> [f \in Scalars |->
                       IF f \in {"tenant_policy_ref", "permission_mode"}
                          /\ t.declared.flat[f] = None
                       THEN <<>> ELSE t.declared.flat[f]],
        lists   |-> [f \in Lists |-> AsStrList(t.declared.flatList[f])],
        digest  |-> None]
  ELSE IF c.strict THEN Refused
  ELSE [run     |-> t.run,
        offset  |-> t.offset,
        scalars |-> DefaultScalars,
        lists   |-> [f \in Lists |-> {}],
        digest  |-> None]
-----------------------------------------------------------------------------
ValidateInput(i) ==
  /\ i.run # <<>>
  /\ i.offset >= 0
  /\ i.scalars["tenant_policy_ref"] # <<>>
  /\ i.scalars["permission_mode"] # <<>>
  /\ i.scalars["context_binding_ref"] \notin {None, <<>>} =>
       i.scalars["context_content_hash"] \notin {None, <<>>}

(* Distinct items without the empty one; the sorted list is that set.      *)
NormalizeStringList(values) == values \ {<<>>}

(* The canonical payload: a reference to the context is not part of it,    *)
(* its content hash is.  Bindings to peer runs are never declared here.    *)
Canonical(i) ==
  [snapshot_schema_version |-> "1",
   run_id                  |-> i.run,
   based_on_offset         |-> i.offset,
   scalars |-> [f \in Scalars \ {"context_binding_ref"} |-> i.scalars[f]],
   lists   |-> [f \in Lists |-> NormalizeStringList(i.lists[f])],
   declarative_bundle_digest |-> i.digest,
   peer_run_bindings         |-> {}]

SnapshotHash(i) == Hash(Canonical(i))
-----------------------------------------------------------------------------
Join(x, y) == x \o <<Colon>> \o y

Content(t, h) ==
  [action_type |-> t.type, input_json |-> <<t.declared, t.input>>,
   policy_tags |-> t.tags, effect_class |-> t.effect, snapshot_hash |-> h]

Generate(t, h) == Join(Join(Join(Dispatch, t.run), t.action), Hash(Content(t, h)))

LegacyDispatchDedupeKey(t) == Join(Join(t.run, t.action), Decimal(t.offset))

Built(c, t) ==
  LET i == ResolveSnapshotInput(c, t) IN i # Refused /\ ValidateInput(i)

(* _phase_snapshot: without a snapshot the turn is a noop under the legacy *)
(* key.  A snapshot just built has the current schema version.             *)
DispatchDedupeKey(c, t) ==
  IF Built(c, t)
  THEN Generate(t, SnapshotHash(ResolveSnapshotInput(c, t)))
  ELSE LegacyDispatchDedupeKey(t)
=============================================================================
