-------------------------- MODULE ConfigLoad_proofs --------------------------
(***************************************************************************)
(* For all configuration files and all trees of blocks: what a load that   *)
(* succeeds has checked, and what it leaves to the requests (ConfigLoad).  *)
(*                                                                         *)
(* The directives come one by one and a switch may be written after what   *)
(* it applies to, so the invariant ConfigInv relates what each directive   *)
(* left in the main configuration to what all of them declared.            *)
(***************************************************************************)
EXTENDS ConfigLoad, FiniteSetTheorems, WellFoundedInduction, TLAPS

-----------------------------------------------------------------------------
(* The inductive invariant *)

DictEntries == [file : DOMAIN Digest, hash : Int, strict : BOOLEAN, literal : Int]

MainConfs ==
  [strict : {UNSET, 0, 1}, trust : {UNSET, 0, 1}, unsafe : {UNSET, 0, 1},
   file : BOOLEAN, unchecked : BOOLEAN, verified : BOOLEAN, any : BOOLEAN,
   anyStatic : BOOLEAN, negative : BOOLEAN, cblock : BOOLEAN, hashed : Nat,
   shown : Nat, buf : BOOLEAN, bufStrict : BOOLEAN]

\* A location's configuration, whatever its list of dictionaries.
IsLocConf(c) ==
  c \in [enable : {UNSET, 0, 1}, static : {UNSET, 0, 1, 2}, level : Int,
         window : Int, cblock : Int, dicts : {c.dicts}, dict : Nat]

DeclaredConfs ==
  [enable : {UNSET, 0, 1}, static : {UNSET, 0, 1, 2}, level : Int,
   window : Int, cblock : Int,
   dicts : [set : BOOLEAN, list : Seq(DictEntries)], dict : Nat]

CDicts == [level : Int, window : Int, live : BOOLEAN, owned : BOOLEAN,
           registered : BOOLEAN]

TypeInv ==
  /\ phase \in {"parse", "merge", "init", "run", "failed", "gone"}
  /\ at \in Blocks
  /\ rest \in [of : SUBSET Directives, bound : Int]
  /\ main \in MainConfs
  /\ loc = [b \in Blocks |-> loc[b]]
  /\ \A b \in Blocks : IsLocConf(loc[b])
  /\ merged \subseteq Blocks \ {Http}
  /\ declared \in [Blocks -> DeclaredConfs]
  /\ cdicts \in Seq(CDicts)
  /\ runtime \in Int

\* Until the merge a block has what its directives said, and http{} always.
MergeInv ==
  /\ phase = "parse" => merged = {} /\ cdicts = <<>> /\ ~ main.buf
  /\ \A b \in Blocks \ merged : loc[b] = declared[b]
  /\ \A b \in merged : Parent[b] \in merged \cup {Http}

\* A merged block has its own settings, else those its parent ended up with.
FromParent ==
  \A b \in merged :
    LET own == declared[b]
        outer == loc[Parent[b]]
    IN /\ loc[b].enable = Inherit(own.enable, outer.enable, 0)
       /\ loc[b].static = Inherit(own.static, outer.static, 0)
       /\ loc[b].level  = InheritLevel(own.level, outer.level)
       /\ loc[b].window = Inherit(own.window, outer.window, 0)
       /\ loc[b].cblock = Inherit(own.cblock, outer.cblock, 0)
       /\ loc[b].dicts  = MergeDicts(own.dicts, outer.dicts)

\* The main configuration knows of every setting that enables something.
LatchInv ==
  \A b \in Blocks :
    /\ loc[b].enable = 1 => main.any
    /\ loc[b].static > 0 => main.anyStatic
    /\ loc[b].level < 0 => loc[b].level = LEVEL_UNSET \/ main.negative
    /\ loc[b].cblock > 0 => main.cblock
    /\ b \in merged => loc[b].level # LEVEL_UNSET

HookInv ==
  /\ phase \in {"init", "run"} =>
       /\ main.any => "filter" \in hooks
       /\ main.anyStatic => "static" \in hooks
  /\ phase = "run" => ~ VersionRefused(runtime)

\* A dictionary opened without the walk is remembered, so is a literal that
\* was compared; neither outlives init_main_conf() with its switch on.
SwitchInv ==
  /\ ~ main.unchecked =>
       \A b \in Blocks : \A k \in DOMAIN declared[b].dicts.list :
         declared[b].dicts.list[k].strict
  /\ phase \in {"merge", "init", "run"} =>
       /\ ~ (main.strict = 1 /\ main.unchecked)
       /\ ~ (main.trust = 1 /\ main.verified)
  /\ main.buf => (main.bufStrict <=> main.strict = 1)

\* What a hash was taken from, when its directive was read.
Vouched(e) ==
  \/ /\ e.hash = Digest[e.file]
     /\ e.literal = NoLiteral \/ (e.literal = e.hash /\ main.verified)
  \/ e.literal # NoLiteral /\ e.hash = e.literal /\ main.trust = 1

\* Every declared dictionary is vouched for, and no block has a hash twice.
ListInv ==
  \A b \in Blocks :
    /\ \A k \in DOMAIN declared[b].dicts.list : Vouched(declared[b].dicts.list[k])
    /\ \A j, k \in DOMAIN declared[b].dicts.list :
         declared[b].dicts.list[j].hash = declared[b].dicts.list[k].hash => j = k

\* Who owns a prepared dictionary, and which location has it.
DictInv ==
  /\ \A k \in DOMAIN cdicts :
       /\ cdicts[k].owned /\ phase # "gone" => cdicts[k].live
       /\ cdicts[k].live => cdicts[k].owned
       /\ phase = "gone" => ~ cdicts[k].live
  /\ phase \in {"merge", "init", "run"} =>
       /\ \A k \in DOMAIN cdicts : cdicts[k].registered /\ cdicts[k].owned
       /\ \A j, k \in DOMAIN cdicts :
            /\ cdicts[j].level = cdicts[k].level
            /\ cdicts[j].window = cdicts[k].window
            => j = k
  /\ \A b \in merged :
       IF Wants(loc[b])
       THEN /\ loc[b].dict \in DOMAIN cdicts
            /\ cdicts[loc[b].dict].level = loc[b].level
            /\ cdicts[loc[b].dict].window = loc[b].window
       ELSE loc[b].dict = NoDict

ConfigInv ==
  /\ TypeInv /\ MergeInv /\ FromParent /\ LatchInv /\ HookInv /\ SwitchInv
  /\ ListInv /\ DictInv

-----------------------------------------------------------------------------
(* Preservation *)

USE HttpIsTop

\* Every set of naturals that is not empty has a least element.
LEMMA LeastNat ==
  ASSUME NEW S, S \subseteq Nat, S # {}
  PROVE  \E m \in S : \A n \in S : m <= n
<1> DEFINE R == {ss \in Nat \X Nat : ss[1] < ss[2]}
<1>1. IsWellFoundedOn(R, Nat)
  BY NatLessThanWellFounded DEF OpToRel
<1>2. PICK m \in S : \A y \in S : ~ (<<y, m>> \in R)
  <2> HIDE DEF R
  <2> QED  BY <1>1, WFMin
<1>3. \A y \in S : ~ (y < m)
  BY <1>2
<1> QED  BY <1>3

\* A step that changes no configuration, and fails or goes on.
LEMMA FrameKeeps ==
  ASSUME ConfigInv, at' \in Blocks,
         rest' \in [of : SUBSET Directives, bound : Int],
         UNCHANGED <<main, loc, merged, declared, cdicts, runtime, hooks>>,
         phase' = phase \/ (phase' = "failed" /\ phase # "gone")
  PROVE  ConfigInv'
<1> USE DEF ConfigInv
<1>1. TypeInv'  BY DEF TypeInv
<1>2. MergeInv'  BY DEF MergeInv
<1>3. FromParent'  BY DEF FromParent
<1>4. LatchInv'  BY DEF LatchInv
<1>5. HookInv'  BY DEF HookInv, VersionRefused
<1>6. SwitchInv'  BY DEF SwitchInv
<1>7. ListInv'  BY DEF ListInv, Vouched
<1>8. DictInv'  BY DEF DictInv, Wants
<1> QED  BY <1>1, <1>2, <1>3, <1>4, <1>5, <1>6, <1>7, <1>8

\* A directive is one of those its handler accepts.
LEMMA DirectiveTypes ==
  ASSUME TypeInv, NEW d \in rest.of
  PROVE  /\ d.name \in {"strict", "trust", "unsafe", "enable"} => d.value \in {0, 1}
         /\ d.name = "static" => d.value \in {0, 1, 2}
         /\ d.name = "level" => d.value \in Int \ {LEVEL_UNSET}
         /\ d.name \in {"window", "cblock"} => d.value \in Nat
         /\ d.name = "dcz" => d.file \in DOMAIN Digest /\ d.value \in Int
<1>1. d \in Directives
  BY DEF TypeInv
<1> QED  BY <1>1 DEF Directives

LEMMA HandleRest ==
  ASSUME TypeInv, Handle
  PROVE  /\ rest' \in [of : SUBSET Directives, bound : Int]
         /\ UNCHANGED <<at, opened, merged, cdicts, runtime, hooks>>
         /\ phase = "parse"
BY DEF TypeInv, Handle

\* zstd_dict_strict_path, zstd_dict_trust_hash, zstd_dict_file_unsafe
LEMMA SetMainKeeps ==
  ASSUME ConfigInv, NEW field \in {"strict", "trust", "unsafe"}, NEW v \in {0, 1},
         SetMain(field, v)
  PROVE  ConfigInv'
<1> USE DEF ConfigInv
<1>1. /\ Handle /\ main[field] = UNSET /\ main' = [main EXCEPT ![field] = v]
      /\ UNCHANGED <<phase, loc, declared>>
  BY DEF SetMain
<1>2. /\ rest' \in [of : SUBSET Directives, bound : Int] /\ phase = "parse"
      /\ UNCHANGED <<at, opened, merged, cdicts, runtime, hooks>>
  BY <1>1, HandleRest
<1>3. main \in MainConfs
  BY DEF TypeInv
<1>4. /\ main' \in MainConfs
      /\ main'.file = main.file /\ main'.unchecked = main.unchecked
      /\ main'.verified = main.verified /\ main'.any = main.any
      /\ main'.anyStatic = main.anyStatic /\ main'.negative = main.negative
      /\ main'.cblock = main.cblock /\ main'.buf = main.buf
      /\ main.trust = 1 => main'.trust = 1
  <2>1. CASE field = "strict"
    BY <1>1, <1>3, <2>1 DEF MainConfs
  <2>2. CASE field = "trust"
    BY <1>1, <1>3, <2>2 DEF MainConfs, UNSET
  <2>3. CASE field = "unsafe"
    BY <1>1, <1>3, <2>3 DEF MainConfs
  <2> QED  BY <2>1, <2>2, <2>3
<1>5. TypeInv'  BY <1>1, <1>2, <1>4 DEF TypeInv
<1>6. MergeInv'  BY <1>1, <1>2, <1>4 DEF MergeInv
<1>7. FromParent'  BY <1>1, <1>2 DEF FromParent
<1>8. LatchInv'  BY <1>1, <1>2, <1>4 DEF LatchInv
<1>9. HookInv'  BY <1>1, <1>2 DEF HookInv
<1>10. SwitchInv'  BY <1>1, <1>2, <1>4 DEF SwitchInv, MergeInv
<1>11. ListInv'  BY <1>1, <1>4 DEF ListInv, Vouched
<1>12. DictInv'  BY <1>1, <1>2 DEF DictInv, MergeInv
<1> QED
  BY <1>5, <1>6, <1>7, <1>8, <1>9, <1>10, <1>11, <1>12

LEMMA SetDictFileKeeps == ASSUME ConfigInv, SetDictFile PROVE ConfigInv'
<1> USE DEF ConfigInv
<1>1. /\ Handle /\ main' = [main EXCEPT !.file = TRUE]
      /\ UNCHANGED <<phase, loc, declared>>
  BY DEF SetDictFile
<1>2. /\ rest' \in [of : SUBSET Directives, bound : Int] /\ phase = "parse"
      /\ UNCHANGED <<at, opened, merged, cdicts, runtime, hooks>>
  BY <1>1, HandleRest
<1>3. /\ main' \in MainConfs
      /\ main'.unchecked = main.unchecked
      /\ main'.verified = main.verified /\ main'.any = main.any
      /\ main'.anyStatic = main.anyStatic /\ main'.negative = main.negative
      /\ main'.cblock = main.cblock /\ main'.buf = main.buf
      /\ main'.trust = main.trust
  BY <1>1 DEF TypeInv, MainConfs
<1>4. TypeInv'  BY <1>1, <1>2, <1>3 DEF TypeInv
<1>5. MergeInv'  BY <1>1, <1>2, <1>3 DEF MergeInv
<1>6. FromParent'  BY <1>1, <1>2 DEF FromParent
<1>7. LatchInv'  BY <1>1, <1>2, <1>3 DEF LatchInv
<1>8. HookInv'  BY <1>1, <1>2 DEF HookInv
<1>9. SwitchInv'  BY <1>1, <1>2, <1>3 DEF SwitchInv, MergeInv
<1>10. ListInv'  BY <1>1, <1>3 DEF ListInv, Vouched
<1>11. DictInv'  BY <1>1, <1>2 DEF DictInv, MergeInv
<1> QED
  BY <1>4, <1>5, <1>6, <1>7, <1>8, <1>9, <1>10, <1>11

LocFields == {"enable", "static", "level", "window", "cblock"}

\* What a location's directive accepts.
Accepts(field, v) ==
  CASE field = "enable" -> v \in {0, 1}
    [] field = "static" -> v \in {0, 1, 2}
    [] field = "level"  -> v \in Int \ {LEVEL_UNSET}
    [] OTHER -> v \in Nat

\* The latches are only ever set.
LEMMA LatchGrows ==
  ASSUME main \in MainConfs, NEW field \in LocFields, NEW v, Accepts(field, v),
         main' = Latch(field, v)
  PROVE  /\ main' \in MainConfs
         /\ main'.file = main.file /\ main'.unchecked = main.unchecked
         /\ main'.verified = main.verified /\ main'.trust = main.trust
         /\ main'.strict = main.strict
         /\ main'.hashed = main.hashed /\ main'.shown = main.shown
         /\ main'.buf = main.buf /\ main'.bufStrict = main.bufStrict
         /\ main.any => main'.any
         /\ main.anyStatic => main'.anyStatic
         /\ main.negative => main'.negative
         /\ main.cblock => main'.cblock
         /\ field = "enable" /\ v = 1 => main'.any
         /\ field = "static" /\ v > 0 => main'.anyStatic
         /\ field = "level" /\ v < 0 => main'.negative
         /\ field = "cblock" /\ v > 0 => main'.cblock
<1>1. CASE field = "enable"
  <2>1. main' = [main EXCEPT !.any = main.any \/ v = 1]
    BY <1>1 DEF Latch
  <2>2. v = 1 => main'.any
    BY <2>1 DEF MainConfs
  <2> QED  BY <1>1, <2>1, <2>2 DEF MainConfs
<1>2. CASE field = "static"
  <2>1. main' = [main EXCEPT !.anyStatic = main.anyStatic \/ v # 0]
    BY <1>2 DEF Latch
  <2>2. v > 0 => v # 0
    BY <1>2 DEF Accepts
  <2>3. v # 0 => main'.anyStatic
    BY <2>1 DEF MainConfs
  <2> QED  BY <1>2, <2>1, <2>2, <2>3 DEF MainConfs
<1>3. CASE field = "level"
  <2>1. main' = [main EXCEPT !.negative = main.negative \/ v < 0]
    BY <1>3 DEF Latch
  <2>2. v < 0 => main'.negative
    BY <2>1 DEF MainConfs
  <2> QED  BY <1>3, <2>1, <2>2 DEF MainConfs
<1>4. CASE field = "cblock"
  <2>1. main' = [main EXCEPT !.cblock = main.cblock \/ v > 0]
    BY <1>4 DEF Latch
  <2>2. v > 0 => main'.cblock
    BY <2>1 DEF MainConfs
  <2> QED  BY <1>4, <2>1, <2>2 DEF MainConfs
<1>5. CASE field = "window"
  BY <1>5 DEF Latch
<1> QED  BY <1>1, <1>2, <1>3, <1>4, <1>5 DEF LocFields

\* One field of one block.
WithField(c, field, v) == [c EXCEPT ![field] = v]

LEMMA FieldSet ==
  ASSUME NEW c \in DeclaredConfs, NEW field \in LocFields, NEW v, Accepts(field, v),
         NEW e, e = WithField(c, field, v)
  PROVE  /\ e \in DeclaredConfs /\ e.dicts = c.dicts /\ e.dict = c.dict
         /\ e.enable = IF field = "enable" THEN v ELSE c.enable
         /\ e.static = IF field = "static" THEN v ELSE c.static
         /\ e.level  = IF field = "level" THEN v ELSE c.level
         /\ e.cblock = IF field = "cblock" THEN v ELSE c.cblock
<1>1. CASE field = "enable"  BY <1>1 DEF DeclaredConfs, Accepts, WithField
<1>2. CASE field = "static"  BY <1>2 DEF DeclaredConfs, Accepts, WithField
<1>3. CASE field = "level"  BY <1>3 DEF DeclaredConfs, Accepts, WithField
<1>4. CASE field = "cblock"  BY <1>4 DEF DeclaredConfs, Accepts, WithField
<1>5. CASE field = "window"  BY <1>5 DEF DeclaredConfs, Accepts, WithField
<1> QED  BY <1>1, <1>2, <1>3, <1>4, <1>5 DEF LocFields

LEMMA DeclaredIsLocConf ==
  ASSUME NEW c \in DeclaredConfs
  PROVE  IsLocConf(c)
BY DEF DeclaredConfs, IsLocConf

LEMMA SetLocKeeps ==
  ASSUME ConfigInv, NEW field \in LocFields, NEW v, Accepts(field, v),
         SetLoc(field, v)
  PROVE  ConfigInv'
<1> USE DEF ConfigInv
<1>1. /\ Handle /\ phase' = phase /\ main' = Latch(field, v)
      /\ loc' = [loc EXCEPT ![at][field] = v]
      /\ declared' = [declared EXCEPT ![at][field] = v]
  BY DEF SetLoc
<1>2. /\ rest' \in [of : SUBSET Directives, bound : Int] /\ phase = "parse"
      /\ UNCHANGED <<at, opened, merged, cdicts, runtime, hooks>>
  BY <1>1, HandleRest
<1>3. merged = {} /\ cdicts = <<>> /\ ~ main.buf
  BY <1>2 DEF MergeInv
<1>4. \A b \in Blocks : loc[b] = declared[b]
  BY <1>3 DEF MergeInv
<1>5. loc = declared /\ loc' = declared'
  <2>1. loc = declared
    BY <1>4 DEF TypeInv
  <2> QED  BY <1>1, <2>1
<1>6. main \in MainConfs /\ at \in Blocks /\ declared \in [Blocks -> DeclaredConfs]
  BY DEF TypeInv
<1>7. PICK e : e = [declared[at] EXCEPT ![field] = v]
  OBVIOUS
<1>8. /\ e \in DeclaredConfs /\ e.dicts = declared[at].dicts
      /\ e.enable = IF field = "enable" THEN v ELSE declared[at].enable
      /\ e.static = IF field = "static" THEN v ELSE declared[at].static
      /\ e.level  = IF field = "level" THEN v ELSE declared[at].level
      /\ e.cblock = IF field = "cblock" THEN v ELSE declared[at].cblock
  <2>1. PICK c \in DeclaredConfs : c = declared[at]
    BY <1>6
  <2>2. e = WithField(c, field, v)
    BY <1>7, <2>1 DEF WithField
  <2>3. /\ e \in DeclaredConfs /\ e.dicts = c.dicts
        /\ e.enable = IF field = "enable" THEN v ELSE c.enable
        /\ e.static = IF field = "static" THEN v ELSE c.static
        /\ e.level  = IF field = "level" THEN v ELSE c.level
        /\ e.cblock = IF field = "cblock" THEN v ELSE c.cblock
    BY <2>2, FieldSet
  <2> QED  BY <2>1, <2>3, Zenon
<1>9. /\ declared' \in [Blocks -> DeclaredConfs] /\ declared'[at] = e
      /\ \A b \in Blocks \ {at} : declared'[b] = declared[b]
      /\ \A b \in Blocks : declared'[b].dicts = declared[b].dicts
  <2>1. declared' = [declared EXCEPT ![at] = e]
    BY <1>1, <1>7
  <2> QED  BY <1>6, <1>8, <2>1
<1>10. /\ main' \in MainConfs
       /\ main'.file = main.file /\ main'.unchecked = main.unchecked
       /\ main'.verified = main.verified /\ main'.trust = main.trust
       /\ main'.strict = main.strict /\ main'.buf = main.buf
  BY <1>1, <1>6, LatchGrows
<1>11. TypeInv'
  <2>1. \A b \in Blocks : IsLocConf(declared'[b])
    BY <1>9, DeclaredIsLocConf
  <2>2. phase' = phase
    BY <1>1
  <2> QED  BY <1>2, <1>5, <1>9, <1>10, <2>1, <2>2 DEF TypeInv
<1>12. MergeInv'
  BY <1>1, <1>2, <1>3, <1>5, <1>10 DEF MergeInv
<1>13. FromParent'
  BY <1>2, <1>3 DEF FromParent
<1>14. LatchInv'
  <2>1. ASSUME NEW b \in Blocks
        PROVE  /\ loc'[b].enable = 1 => main'.any
               /\ loc'[b].static > 0 => main'.anyStatic
               /\ loc'[b].level < 0 => loc'[b].level = LEVEL_UNSET \/ main'.negative
               /\ loc'[b].cblock > 0 => main'.cblock
    <3>1. /\ loc[b].enable = 1 => main.any
          /\ loc[b].static > 0 => main.anyStatic
          /\ loc[b].level < 0 => loc[b].level = LEVEL_UNSET \/ main.negative
          /\ loc[b].cblock > 0 => main.cblock
      BY DEF LatchInv
    <3>2. /\ main.any => main'.any
          /\ main.anyStatic => main'.anyStatic
          /\ main.negative => main'.negative
          /\ main.cblock => main'.cblock
          /\ field = "enable" /\ v = 1 => main'.any
          /\ field = "static" /\ v > 0 => main'.anyStatic
          /\ field = "level" /\ v < 0 => main'.negative
          /\ field = "cblock" /\ v > 0 => main'.cblock
      BY <1>1, <1>6, LatchGrows
    <3>3. CASE b # at
      <4>1. loc'[b] = loc[b]
        BY <1>5, <1>9, <3>3
      <4> QED  BY <3>1, <3>2, <4>1
    <3>4. CASE b = at
      <4>1. loc'[b] = e /\ loc[b] = declared[at]
        BY <1>5, <1>9, <3>4
      <4> QED  BY <1>8, <3>1, <3>2, <4>1
    <3> QED  BY <3>3, <3>4
  <2> QED  BY <1>2, <1>3, <2>1 DEF LatchInv
<1>15. HookInv'
  BY <1>1, <1>2 DEF HookInv
<1>16. SwitchInv'
  BY <1>1, <1>2, <1>3, <1>9, <1>10 DEF SwitchInv
<1>17. ListInv'
  BY <1>9, <1>10 DEF ListInv, Vouched
<1>18. DictInv'
  BY <1>1, <1>2, <1>3 DEF DictInv
<1> QED
  BY <1>11, <1>12, <1>13, <1>14, <1>15, <1>16, <1>17, <1>18

LEMMA DczDictFileKeeps ==
  ASSUME ConfigInv, NEW f \in DOMAIN Digest, NEW literal \in Int,
         DczDictFile(f, literal)
  PROVE  ConfigInv'
<1> USE DEF ConfigInv
<1> DEFINE entry == [file |-> f, hash |-> HashOf(f, literal),
                     strict |-> main.strict = 1, literal |-> literal]
<1>1. /\ Handle /\ phase' = phase /\ main' = DczMain(literal)
      /\ ~ DczRefused(f, literal)
      /\ loc' = [loc EXCEPT ![at] = [loc[at] EXCEPT
                   !.dicts = [set |-> TRUE, list |-> Append(loc[at].dicts.list, entry)]]]
      /\ declared' = [declared EXCEPT ![at] = [declared[at] EXCEPT
                   !.dicts = [set |-> TRUE,
                              list |-> Append(declared[at].dicts.list, entry)]]]
  BY DEF DczDictFile
<1>2. /\ rest' \in [of : SUBSET Directives, bound : Int] /\ phase = "parse"
      /\ UNCHANGED <<at, opened, merged, cdicts, runtime, hooks>>
  BY <1>1, HandleRest
<1>3. merged = {} /\ cdicts = <<>> /\ ~ main.buf
  BY <1>2 DEF MergeInv
<1>4. main \in MainConfs /\ at \in Blocks /\ declared \in [Blocks -> DeclaredConfs]
  BY DEF TypeInv
<1>5. loc = declared
  <2>1. \A b \in Blocks : loc[b] = declared[b]
    BY <1>3 DEF MergeInv
  <2> QED  BY <2>1 DEF TypeInv
<1>6. HashOf(f, literal) \in Int
  BY HashTypes DEF HashOf
<1>7. PICK s \in BOOLEAN : s = (main.strict = 1)
  OBVIOUS
<1>8. PICK e \in DictEntries :
        /\ e = entry /\ e.file = f /\ e.hash = HashOf(f, literal)
        /\ e.literal = literal /\ e.strict = s
  <2>1. PICK h \in Int : h = HashOf(f, literal)
    BY <1>6
  <2>2. entry = [file |-> f, hash |-> h, strict |-> s, literal |-> literal]
    BY <1>7, <2>1
  <2> HIDE DEF entry
  <2> QED  BY <2>1, <2>2 DEF DictEntries
<1>9. /\ e.file = f /\ e.hash = HashOf(f, literal) /\ e.literal = literal
      /\ (e.strict <=> main.strict = 1)
  BY <1>8, <1>7
<1> HIDE DEF entry
<1>10. PICK list \in Seq(DictEntries), a \in Blocks :
        list = declared[at].dicts.list /\ a = at
  BY <1>4 DEF DeclaredConfs
<1> DEFINE new == Append(list, e)
<1>11. PICK c : c = [declared[at] EXCEPT !.dicts = [set |-> TRUE, list |-> new]]
  OBVIOUS
<1>12. /\ new \in Seq(DictEntries)
       /\ DOMAIN new = 1 .. Len(list) + 1 /\ DOMAIN list = 1 .. Len(list)
       /\ Len(list) \in Nat
       /\ new[Len(list) + 1] = e /\ \A k \in DOMAIN list : new[k] = list[k]
  <2>1. new \in Seq(DictEntries)
    OBVIOUS
  <2>2. Len(new) = Len(list) + 1 /\ Len(list) \in Nat
    OBVIOUS
  <2>3. DOMAIN new = 1 .. Len(list) + 1 /\ DOMAIN list = 1 .. Len(list)
    BY <2>1, <2>2
  <2>4. new[Len(list) + 1] = e
    OBVIOUS
  <2>5. \A k \in 1 .. Len(list) : new[k] = list[k]
    OBVIOUS
  <2> HIDE DEF new
  <2> QED  BY <2>1, <2>2, <2>3, <2>4, <2>5
<1>13. /\ c \in DeclaredConfs /\ c.dicts.list = new
       /\ c.enable = declared[at].enable /\ c.static = declared[at].static
       /\ c.level = declared[at].level /\ c.cblock = declared[at].cblock
  <2> HIDE DEF new
  <2>1. declared[at] \in DeclaredConfs
    BY <1>4
  <2> QED  BY <1>12, <1>11, <2>1 DEF DeclaredConfs
<1>14. loc' = declared' /\ declared' = [declared EXCEPT ![at] = c]
  BY <1>1, <1>5, <1>8, <1>10, <1>11
<1>15. /\ declared' \in [Blocks -> DeclaredConfs] /\ declared'[at] = c
       /\ \A b \in Blocks \ {at} : declared'[b] = declared[b]
  BY <1>4, <1>13, <1>14
<1>16. /\ main' \in MainConfs /\ main'.file = main.file
       /\ main'.trust = main.trust /\ main'.strict = main.strict
       /\ main'.any = main.any /\ main'.anyStatic = main.anyStatic
       /\ main'.negative = main.negative /\ main'.cblock = main.cblock
       /\ main'.buf = main.buf
       /\ main.unchecked => main'.unchecked
       /\ main.strict # 1 => main'.unchecked
       /\ main.verified => main'.verified
       /\ literal # NoLiteral /\ main.trust # 1 => main'.verified
  <2> DEFINE u == main.unchecked \/ main.strict # 1
             w == main.verified \/ (literal # NoLiteral /\ main.trust # 1)
             h == IF OnTrust(literal) THEN main.hashed ELSE main.hashed + 1
  <2>1. main' = [main EXCEPT !.unchecked = u, !.verified = w, !.hashed = h]
    BY <1>1 DEF DczMain
  <2>2. u \in BOOLEAN /\ w \in BOOLEAN /\ h \in Nat
    BY <1>4 DEF MainConfs
  <2>3. /\ main.unchecked => u
        /\ main.strict # 1 => u
        /\ main.verified => w
        /\ literal # NoLiteral /\ main.trust # 1 => w
    OBVIOUS
  <2> HIDE DEF u, w, h
  <2>4. main'.unchecked = u /\ main'.verified = w
    BY <1>4, <2>1 DEF MainConfs
  <2>5. /\ main' \in MainConfs /\ main'.file = main.file
        /\ main'.trust = main.trust /\ main'.strict = main.strict
        /\ main'.any = main.any /\ main'.anyStatic = main.anyStatic
        /\ main'.negative = main.negative /\ main'.cblock = main.cblock
        /\ main'.buf = main.buf
    BY <1>4, <2>1, <2>2 DEF MainConfs
  <2> QED  BY <2>3, <2>4, <2>5
<1> HIDE DEF new
<1>17. TypeInv'
  <2>1. \A b \in Blocks : IsLocConf(declared'[b])
    BY <1>15, DeclaredIsLocConf
  <2>2. \A b \in Blocks : IsLocConf(loc'[b])
    BY <1>14, <2>1, Zenon
  <2>3. loc' = [b \in Blocks |-> loc'[b]]
    BY <1>14, <1>15
  <2>4. /\ phase \in {"parse", "merge", "init", "run", "failed", "gone"}
        /\ at' \in Blocks /\ merged' \subseteq Blocks \ {Http}
        /\ cdicts' \in Seq(CDicts) /\ runtime' \in Int
    BY <1>2 DEF TypeInv
  <2>5. (\A b \in Blocks : IsLocConf(loc[b]))'
    BY <2>2 DEF IsLocConf
  <2> QED
    <3> HIDE DEF ConfigInv
    <3> QED  BY <1>1, <1>2, <1>15, <1>16, <2>3, <2>4, <2>5 DEF TypeInv
<1>18. MergeInv'
  BY <1>1, <1>2, <1>3, <1>14, <1>16 DEF MergeInv
<1>19. FromParent'
  BY <1>2, <1>3 DEF FromParent
<1>20. LatchInv'
  <2>1. \A b \in Blocks : /\ loc'[b].enable = loc[b].enable
                          /\ loc'[b].static = loc[b].static
                          /\ loc'[b].level = loc[b].level
                          /\ loc'[b].cblock = loc[b].cblock
    BY <1>5, <1>13, <1>14, <1>15
  <2> QED  BY <1>2, <1>16, <2>1 DEF LatchInv
<1>21. HookInv'
  BY <1>1, <1>2 DEF HookInv
<1>22. SwitchInv'
  <2>1. ASSUME ~ main'.unchecked, NEW b \in Blocks,
               NEW k \in DOMAIN declared'[b].dicts.list
        PROVE  declared'[b].dicts.list[k].strict
    <3>1. ~ main.unchecked /\ main.strict = 1
      BY <1>4, <1>16, <2>1 DEF MainConfs
    <3>2. CASE b # at
      BY <1>15, <3>1, <3>2 DEF SwitchInv
    <3>3. CASE b = at
      <4>1. declared'[b].dicts.list = new
        BY <1>13, <1>15, <3>3
      <4>2. k \in DOMAIN list \/ k = Len(list) + 1
        BY <1>12, <4>1
      <4>3. CASE k \in DOMAIN list
        <5>1. \A j \in DOMAIN list : list[j].strict
          BY <1>10, <3>1 DEF SwitchInv
        <5> QED  BY <1>12, <4>1, <4>3, <5>1
      <4>4. CASE k = Len(list) + 1
        BY <1>9, <1>12, <3>1, <4>1, <4>4
      <4> QED  BY <4>2, <4>3, <4>4
    <3> QED  BY <3>2, <3>3
  <2> QED  BY <1>1, <1>2, <1>3, <1>16, <2>1 DEF SwitchInv
<1>23. ListInv'
  <2>1. \A x : Vouched(x) => Vouched(x)'
    BY <1>16 DEF Vouched
  <2>2. Vouched(e)'
    <3>1. CASE OnTrust(literal)
      BY <1>9, <1>16, <3>1 DEF Vouched, OnTrust, HashOf
    <3>2. CASE ~ OnTrust(literal)
      <4>1. e.hash = Digest[f] /\ (literal = NoLiteral \/ literal = Digest[f])
        BY <1>1, <1>9, <3>2 DEF HashOf, DczRefused
      <4>2. literal # NoLiteral => main'.verified
        BY <1>16, <3>2 DEF OnTrust
      <4> QED  BY <1>9, <4>1, <4>2 DEF Vouched
    <3> QED  BY <3>1, <3>2
  <2>3. \A k \in DOMAIN list : Vouched(list[k]) /\ list[k].hash # e.hash
    <3>1. \A k \in DOMAIN list : list[k].hash # HashOf(f, literal)
      BY <1>1, <1>5, <1>10 DEF DczRefused
    <3> QED  BY <1>9, <1>10, <3>1 DEF ListInv
  <2>4. \A j, k \in DOMAIN list : list[j].hash = list[k].hash => j = k
    BY <1>10 DEF ListInv
  <2>5. ASSUME NEW k \in DOMAIN new PROVE Vouched(new[k])'
    <3>1. CASE k = Len(list) + 1
      BY <1>12, <2>2, <3>1
    <3>2. CASE k \in DOMAIN list
      <4>1. Vouched(list[k])'
        BY <2>1, <2>3, <3>2
      <4> QED  BY <1>12, <3>2, <4>1
    <3> QED  BY <1>12, <3>1, <3>2
  <2>6. ASSUME NEW j \in DOMAIN new, NEW k \in DOMAIN new, new[j].hash = new[k].hash
        PROVE  j = k
    <3>1. j = Len(list) + 1 \/ j \in DOMAIN list
      BY <1>12
    <3>2. k = Len(list) + 1 \/ k \in DOMAIN list
      BY <1>12
    <3> QED  BY <1>12, <2>3, <2>4, <2>6, <3>1, <3>2
  <2>7. ASSUME NEW b \in Blocks
        PROVE  /\ \A k \in DOMAIN declared'[b].dicts.list :
                    Vouched(declared[b].dicts.list[k])'
               /\ \A j, k \in DOMAIN declared'[b].dicts.list :
                    declared'[b].dicts.list[j].hash = declared'[b].dicts.list[k].hash
                      => j = k
    <3>1. CASE b # a
      <4>1. PICK L : L = declared[b].dicts.list /\ L = declared'[b].dicts.list
        BY <1>10, <1>15, <3>1
      <4>2. \A k \in DOMAIN L : Vouched(L[k])
        BY <4>1 DEF ListInv
      <4>3. \A j, k \in DOMAIN L : L[j].hash = L[k].hash => j = k
        BY <4>1 DEF ListInv
      <4>4. \A k \in DOMAIN L : Vouched(L[k])'
        BY <2>1, <4>2
      <4> QED  BY <4>1, <4>3, <4>4
    <3>2. CASE b = a
      <4>1. declared'[b].dicts.list = new
        BY <1>10, <1>13, <1>15, <3>2
      <4> QED  BY <2>5, <2>6, <4>1
    <3> QED  BY <3>1, <3>2
  <2> QED  BY <2>7 DEF ListInv
<1>24. DictInv'
  BY <1>1, <1>2, <1>3 DEF DictInv
<1> QED
  BY <1>17, <1>18, <1>19, <1>20, <1>21, <1>22, <1>23, <1>24

LEMMA InitMainConfKeeps == ASSUME ConfigInv, InitMainConf PROVE ConfigInv'
<1> USE DEF ConfigInv
<1> DEFINE s == IF main.strict = UNSET THEN 0 ELSE main.strict
           t == IF main.trust = UNSET THEN 0 ELSE main.trust
<1>1. /\ phase = "parse" /\ phase' = "merge" /\ ~ MainConfBad
      /\ main' = [main EXCEPT !.shown = main.hashed, !.strict = s, !.trust = t]
      /\ UNCHANGED <<at, opened, rest, loc, merged, declared, cdicts, runtime, hooks>>
  BY DEF InitMainConf
<1>2. s \in {0, 1} /\ t \in {0, 1} /\ (s = 1 <=> main.strict = 1)
      /\ (t = 1 <=> main.trust = 1)
  BY DEF TypeInv, MainConfs, UNSET
<1> HIDE DEF s, t
<1>3. /\ main' \in MainConfs /\ main'.strict = s /\ main'.trust = t
      /\ main'.file = main.file /\ main'.unchecked = main.unchecked
      /\ main'.verified = main.verified /\ main'.any = main.any
      /\ main'.anyStatic = main.anyStatic /\ main'.negative = main.negative
      /\ main'.cblock = main.cblock /\ main'.buf = main.buf
  BY <1>1, <1>2 DEF TypeInv, MainConfs
<1>4. merged = {} /\ cdicts = <<>> /\ ~ main.buf
  BY <1>1 DEF MergeInv
<1>5. TypeInv'  BY <1>1, <1>3 DEF TypeInv
<1>6. MergeInv'  BY <1>1, <1>3 DEF MergeInv
<1>7. FromParent'  BY <1>1 DEF FromParent
<1>8. LatchInv'  BY <1>1, <1>3 DEF LatchInv
<1>9. HookInv'  BY <1>1 DEF HookInv
<1>10. SwitchInv'
  BY <1>1, <1>2, <1>3, <1>4 DEF SwitchInv, MainConfBad
<1>11. ListInv'  BY <1>1, <1>2, <1>3 DEF ListInv, Vouched
<1>12. DictInv'  BY <1>1, <1>4 DEF DictInv
<1> QED
  BY <1>5, <1>6, <1>7, <1>8, <1>9, <1>10, <1>11, <1>12

\* What a block inherits.
LEMMA InheritedFacts ==
  ASSUME ConfigInv, NEW b \in Blocks \ {Http}, Mergeable(b)
  PROVE  LET c == Inherited(b) IN
         /\ c.enable \in {0, 1} /\ c.static \in {0, 1, 2}
         /\ c.level \in Int /\ c.window \in Int /\ c.cblock \in Int
         /\ c.dict = NoDict /\ IsLocConf(c)
         /\ c.enable = 1 => main.any
         /\ c.static > 0 => main.anyStatic
         /\ c.level < 0 => main.negative
         /\ c.cblock > 0 => main.cblock
         /\ c.level # LEVEL_UNSET
<1> USE DEF ConfigInv
<1> DEFINE own == loc[b]
           outer == loc[Parent[b]]
           c == Inherited(b)
<1>1. b \in Blocks /\ Parent[b] \in Blocks
  OBVIOUS
<1>2. IsLocConf(own) /\ IsLocConf(outer)
  BY <1>1 DEF TypeInv
<1>3. /\ own.enable \in {UNSET, 0, 1} /\ outer.enable \in {UNSET, 0, 1}
      /\ own.static \in {UNSET, 0, 1, 2} /\ outer.static \in {UNSET, 0, 1, 2}
      /\ own.level \in Int /\ outer.level \in Int
      /\ own.window \in Int /\ outer.window \in Int
      /\ own.cblock \in Int /\ outer.cblock \in Int
  BY <1>2 DEF IsLocConf
<1>4. /\ (own.enable = 1 => main.any) /\ (outer.enable = 1 => main.any)
      /\ (own.static > 0 => main.anyStatic) /\ (outer.static > 0 => main.anyStatic)
      /\ (own.level < 0 => own.level = LEVEL_UNSET \/ main.negative)
      /\ (outer.level < 0 => outer.level = LEVEL_UNSET \/ main.negative)
      /\ (own.cblock > 0 => main.cblock) /\ (outer.cblock > 0 => main.cblock)
  BY <1>1 DEF LatchInv
<1>5. /\ c.enable = Inherit(own.enable, outer.enable, 0)
      /\ c.static = Inherit(own.static, outer.static, 0)
      /\ c.level  = InheritLevel(own.level, outer.level)
      /\ c.window = Inherit(own.window, outer.window, 0)
      /\ c.cblock = Inherit(own.cblock, outer.cblock, 0)
      /\ c.dict = NoDict
      /\ c = [enable |-> c.enable, static |-> c.static, level |-> c.level,
              window |-> c.window, cblock |-> c.cblock, dicts |-> c.dicts,
              dict |-> c.dict]
  BY DEF Inherited
<1> HIDE DEF own, outer, c
<1>6. /\ c.enable \in {0, 1} /\ c.static \in {0, 1, 2}
      /\ c.level \in Int /\ c.window \in Int /\ c.cblock \in Int
  BY <1>3, <1>5 DEF Inherit, InheritLevel, DefaultLevel, UNSET
<1>7. /\ c.enable = 1 => main.any
      /\ c.static > 0 => main.anyStatic
  BY <1>3, <1>4, <1>5 DEF Inherit
<1>8. c.level # LEVEL_UNSET /\ (c.level < 0 => main.negative)
  BY <1>3, <1>4, <1>5 DEF InheritLevel, DefaultLevel, LEVEL_UNSET
<1>9. c.cblock > 0 => main.cblock
  BY <1>3, <1>4, <1>5 DEF Inherit
<1>10. IsLocConf(c)
  <2>1. c.dict \in Nat
    BY <1>5 DEF NoDict
  <2> QED  BY <1>5, <1>6, <2>1 DEF IsLocConf
<1> QED  BY <1>5, <1>6, <1>7, <1>8, <1>9, <1>10 DEF c

\* All settings but the prepared dictionary.
SameSettings(m, c) ==
  /\ m.enable = c.enable /\ m.static = c.static /\ m.level = c.level
  /\ m.window = c.window /\ m.cblock = c.cblock /\ m.dicts = c.dicts

\* The file's contents may have been read, and nothing else.
BufferRead ==
  /\ main' \in MainConfs
  /\ main'.any = main.any /\ main'.anyStatic = main.anyStatic
  /\ main'.negative = main.negative /\ main'.cblock = main.cblock
  /\ main'.unchecked = main.unchecked /\ main'.verified = main.verified
  /\ main'.trust = main.trust /\ main'.strict = main.strict
  /\ main'.file = main.file
  /\ main'.buf => (main'.bufStrict <=> main'.strict = 1)

\* A block gets its configuration, and no other block's changes.
LEMMA MergeStep ==
  ASSUME ConfigInv, NEW b \in Blocks \ {Http}, Mergeable(b), NEW m,
         IsLocConf(m), loc' = [loc EXCEPT ![b] = m],
         SameSettings(m, Inherited(b)),
         merged' = merged \cup {b},
         UNCHANGED <<phase, at, rest, declared, runtime, hooks>>,
         cdicts' \in Seq(CDicts), BufferRead
  PROVE  /\ TypeInv' /\ MergeInv' /\ FromParent' /\ LatchInv' /\ HookInv'
         /\ SwitchInv' /\ ListInv'
         /\ b \notin merged /\ loc'[b] = m
         /\ \A x \in Blocks \ {b} : loc'[x] = loc[x]
<1> USE DEF ConfigInv, SameSettings, BufferRead
<1>1. /\ b \notin merged /\ Parent[b] \in merged \cup {Http} /\ phase = "merge"
      /\ b # Http /\ Parent[b] # b /\ Parent[b] \in Blocks
  BY DEF Mergeable
<1>2. /\ loc'[b] = m /\ \A x \in Blocks \ {b} : loc'[x] = loc[x]
      /\ loc' = [x \in Blocks |-> loc'[x]]
  BY DEF TypeInv
<1>3. TypeInv'
  <2>1. \A x \in Blocks : IsLocConf(loc'[x])
    BY <1>2 DEF TypeInv
  <2> QED  BY <1>2, <2>1 DEF TypeInv
<1>4. loc[b] = declared[b]
  BY <1>1 DEF MergeInv
<1>5. MergeInv'
  <2>1. \A x \in Blocks \ merged' : loc'[x] = declared'[x]
    BY <1>2 DEF MergeInv
  <2>2. \A x \in merged' : Parent[x] \in merged' \cup {Http}
    BY <1>1 DEF MergeInv
  <2> QED  BY <1>1, <2>1, <2>2 DEF MergeInv
<1>6. FromParent'
  <2>1. ASSUME NEW x \in merged'
        PROVE  /\ loc'[x].enable = Inherit(declared[x].enable, loc'[Parent[x]].enable, 0)
               /\ loc'[x].static = Inherit(declared[x].static, loc'[Parent[x]].static, 0)
               /\ loc'[x].level  = InheritLevel(declared[x].level, loc'[Parent[x]].level)
               /\ loc'[x].window = Inherit(declared[x].window, loc'[Parent[x]].window, 0)
               /\ loc'[x].cblock = Inherit(declared[x].cblock, loc'[Parent[x]].cblock, 0)
               /\ loc'[x].dicts  = MergeDicts(declared[x].dicts, loc'[Parent[x]].dicts)
    <3>1. CASE x = b
      <4>1. loc'[Parent[b]] = loc[Parent[b]]
        BY <1>1, <1>2
      <4> QED  BY <1>2, <1>4, <3>1, <4>1 DEF Inherited
    <3>2. CASE x # b
      <4>1. x \in merged /\ x \in Blocks /\ Parent[x] \in Blocks \ {b}
        BY <1>1, <3>2 DEF MergeInv, TypeInv
      <4>2. loc'[x] = loc[x] /\ loc'[Parent[x]] = loc[Parent[x]]
        BY <1>2, <3>2, <4>1
      <4> QED  BY <4>1, <4>2 DEF FromParent
    <3> QED  BY <3>1, <3>2
  <2> QED  BY <2>1 DEF FromParent
<1>7. LatchInv'
  <2>1. ASSUME NEW x \in Blocks
        PROVE  /\ loc'[x].enable = 1 => main'.any
               /\ loc'[x].static > 0 => main'.anyStatic
               /\ loc'[x].level < 0 => loc'[x].level = LEVEL_UNSET \/ main'.negative
               /\ loc'[x].cblock > 0 => main'.cblock
               /\ x \in merged' => loc'[x].level # LEVEL_UNSET
    <3>1. CASE x = b
      BY <1>2, <3>1, InheritedFacts
    <3>2. CASE x # b
      <4>1. loc'[x] = loc[x] /\ (x \in merged' => x \in merged)
        BY <1>2, <3>2
      <4> QED  BY <4>1 DEF LatchInv
    <3> QED  BY <3>1, <3>2
  <2> QED  BY <2>1 DEF LatchInv
<1>8. HookInv'
  BY <1>1 DEF HookInv
<1>9. SwitchInv'
  BY DEF SwitchInv
<1>10. ListInv'
  BY DEF ListInv, Vouched
<1> QED
  BY <1>1, <1>2, <1>3, <1>5, <1>6, <1>7, <1>8, <1>9, <1>10

\* The registry has what the location needs, or it needs nothing.
LEMMA MergeLocConfKeeps ==
  ASSUME ConfigInv, NEW b \in Blocks \ {Http}, MergeLocConf(b)
  PROVE  ConfigInv'
<1> USE DEF ConfigInv
<1>1. PICK c : c = Inherited(b)
  OBVIOUS
<1>2. /\ Mergeable(b) /\ (Wants(c) => Shared(c) # {})
      /\ loc' = [loc EXCEPT ![b] =
                   IF Wants(c) THEN [c EXCEPT !.dict = Min(Shared(c))] ELSE c]
      /\ merged' = merged \cup {b}
      /\ UNCHANGED <<phase, at, opened, rest, main, declared, cdicts, runtime, hooks>>
  BY <1>1 DEF MergeLocConf
<1>3. /\ IsLocConf(c) /\ c.dict = NoDict /\ c.level \in Int /\ c.window \in Int
  BY <1>1, <1>2, InheritedFacts
<1>4. cdicts \in Seq(CDicts) /\ DOMAIN cdicts \subseteq Nat
  BY DEF TypeInv
<1>5. Wants(c) => Min(Shared(c)) \in Shared(c)
  <2>1. SUFFICES ASSUME Wants(c) PROVE Min(Shared(c)) \in Shared(c)
    OBVIOUS
  <2>2. Shared(c) \subseteq Nat /\ Shared(c) # {}
    BY <1>2, <1>4, <2>1 DEF Shared
  <2>3. \E k \in Shared(c) : \A j \in Shared(c) : k <= j
    BY <2>2, LeastNat
  <2> QED  BY <2>3, Zenon DEF Min
<1>6. PICK m : m = IF Wants(c) THEN [c EXCEPT !.dict = Min(Shared(c))] ELSE c
  OBVIOUS
<1>7. /\ IsLocConf(m)
      /\ m.enable = c.enable /\ m.static = c.static /\ m.level = c.level
      /\ m.window = c.window /\ m.cblock = c.cblock /\ m.dicts = c.dicts
      /\ Wants(c) => m.dict \in Shared(c)
      /\ ~ Wants(c) => m.dict = NoDict
  <2>1. CASE Wants(c)
    <3>1. PICK k \in Nat : k = Min(Shared(c)) /\ k \in Shared(c)
      BY <1>4, <1>5, <2>1 DEF Shared
    <3>2. m = [c EXCEPT !.dict = k]
      BY <1>6, <2>1, <3>1
    <3>3. /\ m.enable = c.enable /\ m.static = c.static /\ m.level = c.level
          /\ m.window = c.window /\ m.cblock = c.cblock /\ m.dicts = c.dicts
          /\ m.dict = k
      BY <1>3, <3>2 DEF IsLocConf
    <3>4. IsLocConf(m)
      BY <1>3, <3>2, <3>3 DEF IsLocConf
    <3> QED  BY <2>1, <3>1, <3>3, <3>4
  <2>2. CASE ~ Wants(c)
    BY <1>3, <1>6, <2>2
  <2> QED  BY <2>1, <2>2
<1>8. BufferRead
  BY <1>2 DEF TypeInv, SwitchInv, BufferRead
<1>9. /\ TypeInv' /\ MergeInv' /\ FromParent' /\ LatchInv' /\ HookInv'
      /\ SwitchInv' /\ ListInv'
      /\ b \notin merged /\ loc'[b] = m
      /\ \A x \in Blocks \ {b} : loc'[x] = loc[x]
  <2>1. SameSettings(m, Inherited(b))
    BY <1>1, <1>7 DEF SameSettings
  <2>2. loc' = [loc EXCEPT ![b] = m]
    BY <1>2, <1>6
  <2> QED  BY <1>2, <1>4, <1>7, <1>8, <2>1, <2>2, MergeStep
<1>10. DictInv'
  <2>1. ASSUME NEW x \in merged'
        PROVE  IF Wants(loc'[x])
               THEN /\ loc'[x].dict \in DOMAIN cdicts
                    /\ cdicts[loc'[x].dict].level = loc'[x].level
                    /\ cdicts[loc'[x].dict].window = loc'[x].window
               ELSE loc'[x].dict = NoDict
    <3>1. CASE x = b
      <4>1. Wants(loc'[x]) <=> Wants(c)
        BY <1>7, <1>9, <3>1 DEF Wants
      <4> QED  BY <1>7, <1>9, <3>1, <4>1 DEF Shared
    <3>2. CASE x # b
      <4>1. x \in merged /\ loc'[x] = loc[x]
        BY <1>2, <1>9, <3>2 DEF TypeInv
      <4> QED  BY <4>1 DEF DictInv
    <3> QED  BY <3>1, <3>2
  <2>2. \A x \in merged' : (Wants(loc[x]))' <=> Wants(loc'[x])
    BY <1>2 DEF Wants
  <2> QED  BY <1>2, <2>1, <2>2 DEF DictInv
<1> QED  BY <1>9, <1>10

LEMMA BufferIsRead ==
  ASSUME ConfigInv, ReadDictFile
  PROVE  BufferRead
<1> USE DEF ConfigInv
<1>1. main \in MainConfs /\ (main.buf => (main.bufStrict <=> main.strict = 1))
  BY DEF TypeInv, SwitchInv
<1>2. PICK s \in BOOLEAN : s = IF main.buf THEN main.bufStrict ELSE main.strict = 1
  BY <1>1 DEF MainConfs
<1>3. s <=> main.strict = 1
  BY <1>1, <1>2
<1>4. main' = [main EXCEPT !.buf = TRUE, !.bufStrict = s]
  BY <1>2 DEF ReadDictFile
<1>5. main'.bufStrict = s /\ main'.strict = main.strict
  BY <1>1, <1>4 DEF MainConfs
<1>6. main' \in MainConfs
  BY <1>1, <1>4 DEF MainConfs
<1>7. /\ main'.any = main.any /\ main'.anyStatic = main.anyStatic
      /\ main'.negative = main.negative /\ main'.cblock = main.cblock
      /\ main'.unchecked = main.unchecked /\ main'.verified = main.verified
      /\ main'.trust = main.trust /\ main'.file = main.file
  BY <1>1, <1>4 DEF MainConfs
<1> QED  BY <1>3, <1>5, <1>6, <1>7 DEF BufferRead

\* One prepared dictionary more.
LEMMA NewCDictFacts ==
  ASSUME cdicts \in Seq(CDicts), NEW c, c.level \in Int, c.window \in Int,
         NEW live \in BOOLEAN, NEW owned \in BOOLEAN, NEW registered \in BOOLEAN,
         cdicts' = NewCDict(c, live, owned, registered)
  PROVE  /\ cdicts' \in Seq(CDicts)
         /\ Len(cdicts) \in Nat /\ Len(cdicts) + 1 \in Nat
         /\ DOMAIN cdicts = 1 .. Len(cdicts) /\ DOMAIN cdicts' = 1 .. Len(cdicts) + 1
         /\ \A k \in DOMAIN cdicts : cdicts'[k] = cdicts[k]
         /\ cdicts'[Len(cdicts) + 1].level = c.level
         /\ cdicts'[Len(cdicts) + 1].window = c.window
         /\ cdicts'[Len(cdicts) + 1].live = live
         /\ cdicts'[Len(cdicts) + 1].owned = owned
         /\ cdicts'[Len(cdicts) + 1].registered = registered
<1>1. \A l, w \in Int, x, y, z \in BOOLEAN :
        [level |-> l, window |-> w, live |-> x, owned |-> y, registered |-> z]
          \in CDicts
  BY Zenon DEF CDicts
<1>2. PICK e :
        e = [level |-> c.level, window |-> c.window, live |-> live,
             owned |-> owned, registered |-> registered]
  OBVIOUS
<1>3. e \in CDicts
  BY <1>1, <1>2
<1>4. /\ e.level = c.level /\ e.window = c.window /\ e.live = live
      /\ e.owned = owned /\ e.registered = registered
  BY Zenon, <1>2
<1>5. cdicts' = Append(cdicts, e)
  BY <1>2 DEF NewCDict
<1>6. cdicts' \in Seq(CDicts) /\ Len(cdicts') = Len(cdicts) + 1 /\ Len(cdicts) \in Nat
  BY <1>3, <1>5
<1>7. cdicts'[Len(cdicts) + 1] = e
  BY <1>3, <1>5
<1>8. \A k \in 1 .. Len(cdicts) : cdicts'[k] = cdicts[k]
  BY <1>3, <1>5
<1>9. DOMAIN cdicts = 1 .. Len(cdicts) /\ DOMAIN cdicts' = 1 .. Len(cdicts) + 1
  BY <1>6
<1> QED  BY <1>4, <1>6, <1>7, <1>8, <1>9

\* A location's prepared dictionary is created.
LEMMA MergeCreatesKeeps ==
  ASSUME ConfigInv, NEW b \in Blocks \ {Http}, MergeCreates(b)
  PROVE  ConfigInv'
<1> USE DEF ConfigInv
<1>1. PICK c : c = Inherited(b)
  OBVIOUS
<1>2. /\ Mergeable(b) /\ Wants(c) /\ Shared(c) = {} /\ ReadDictFile
      /\ cdicts' = NewCDict(c, TRUE, TRUE, TRUE)
      /\ loc' = [loc EXCEPT ![b] = [c EXCEPT !.dict = Len(cdicts) + 1]]
      /\ merged' = merged \cup {b}
      /\ UNCHANGED <<phase, at, opened, rest, declared, runtime, hooks>>
  BY <1>1 DEF MergeCreates
<1>3. IsLocConf(c) /\ c.level \in Int /\ c.window \in Int
  BY <1>1, <1>2, InheritedFacts
<1>4. cdicts \in Seq(CDicts)
  BY DEF TypeInv
<1>5. PICK n \in Nat : n = Len(cdicts) + 1
  BY <1>4
<1>6. /\ cdicts' \in Seq(CDicts)
      /\ DOMAIN cdicts' = DOMAIN cdicts \cup {n} /\ n \notin DOMAIN cdicts
      /\ \A k \in DOMAIN cdicts : cdicts'[k] = cdicts[k]
      /\ cdicts'[n].level = c.level /\ cdicts'[n].window = c.window
      /\ cdicts'[n].live = TRUE /\ cdicts'[n].owned = TRUE
      /\ cdicts'[n].registered = TRUE
  <2>1. /\ cdicts' \in Seq(CDicts) /\ Len(cdicts) \in Nat
        /\ DOMAIN cdicts = 1 .. Len(cdicts) /\ DOMAIN cdicts' = 1 .. Len(cdicts) + 1
        /\ \A k \in DOMAIN cdicts : cdicts'[k] = cdicts[k]
        /\ cdicts'[n].level = c.level /\ cdicts'[n].window = c.window
        /\ cdicts'[n].live = TRUE /\ cdicts'[n].owned = TRUE
        /\ cdicts'[n].registered = TRUE
    BY <1>2, <1>3, <1>4, <1>5, NewCDictFacts
  <2>2. \A l \in Nat : 1 .. l + 1 = (1 .. l) \cup {l + 1} /\ l + 1 \notin 1 .. l
    OBVIOUS
  <2> QED  BY <1>5, <2>1, <2>2
<1>7. PICK m : m = [c EXCEPT !.dict = n]
  OBVIOUS
<1>8. IsLocConf(m) /\ SameSettings(m, c) /\ m.dict = n
  <2>1. SameSettings(m, c) /\ m.dict = n
    BY <1>3, <1>7 DEF IsLocConf, SameSettings
  <2> QED  BY <1>3, <1>7, <2>1 DEF IsLocConf, SameSettings
<1>9. BufferRead
  BY <1>2, BufferIsRead
<1>10. /\ TypeInv' /\ MergeInv' /\ FromParent' /\ LatchInv' /\ HookInv'
       /\ SwitchInv' /\ ListInv'
       /\ b \notin merged /\ loc'[b] = m
       /\ \A x \in Blocks \ {b} : loc'[x] = loc[x]
  <2>1. loc' = [loc EXCEPT ![b] = m]
    BY <1>2, <1>5, <1>7
  <2> QED  BY <1>1, <1>2, <1>6, <1>8, <1>9, <2>1, MergeStep
<1>11. phase = "merge"
  BY <1>2 DEF Mergeable
<1>12. \A k \in DOMAIN cdicts :
         ~ (cdicts[k].level = c.level /\ cdicts[k].window = c.window)
  BY <1>2, <1>11 DEF DictInv, Shared
<1>13. DictInv'
  <2>1. ASSUME NEW k \in DOMAIN cdicts'
        PROVE  /\ cdicts'[k].owned /\ phase' # "gone" => cdicts'[k].live
               /\ cdicts'[k].live => cdicts'[k].owned
               /\ phase' = "gone" => ~ cdicts'[k].live
               /\ cdicts'[k].registered /\ cdicts'[k].owned
    <3>1. CASE k = n
      BY <1>2, <1>6, <1>11, <3>1
    <3>2. CASE k \in DOMAIN cdicts
      BY <1>2, <1>6, <1>11, <3>2 DEF DictInv
    <3> QED  BY <1>6, <3>1, <3>2
  <2>2. ASSUME NEW j \in DOMAIN cdicts', NEW k \in DOMAIN cdicts',
               cdicts'[j].level = cdicts'[k].level,
               cdicts'[j].window = cdicts'[k].window
        PROVE  j = k
    <3>1. CASE j = n \/ k = n
      BY <1>6, <1>12, <2>2, <3>1
    <3>2. CASE j # n /\ k # n
      BY <1>6, <1>11, <2>2, <3>2 DEF DictInv
    <3> QED  BY <3>1, <3>2
  <2>3. main'.file = main.file
    BY <1>9 DEF BufferRead
  <2>4. ASSUME NEW x \in merged'
        PROVE  IF Wants(loc[x])'
               THEN /\ loc'[x].dict \in DOMAIN cdicts'
                    /\ cdicts'[loc'[x].dict].level = loc'[x].level
                    /\ cdicts'[loc'[x].dict].window = loc'[x].window
               ELSE loc'[x].dict = NoDict
    <3>1. CASE x = b
      <4>1. Wants(loc[x])'
        BY <1>2, <1>8, <1>10, <2>3, <3>1 DEF Wants, SameSettings
      <4>2. /\ loc'[x].dict = n /\ loc'[x].level = c.level
            /\ loc'[x].window = c.window
        BY <1>8, <1>10, <3>1 DEF SameSettings
      <4> QED  BY <1>6, <4>1, <4>2
    <3>2. CASE x # b
      <4>1. x \in merged /\ loc'[x] = loc[x]
        BY <1>2, <1>10, <3>2 DEF TypeInv
      <4>2. Wants(loc[x])' <=> Wants(loc[x])
        BY <2>3, <4>1 DEF Wants
      <4>3. CASE Wants(loc[x])
        <5>1. /\ loc[x].dict \in DOMAIN cdicts
              /\ cdicts[loc[x].dict].level = loc[x].level
              /\ cdicts[loc[x].dict].window = loc[x].window
          BY <4>1, <4>3 DEF DictInv
        <5> QED  BY <1>6, <4>1, <4>2, <4>3, <5>1
      <4>4. CASE ~ Wants(loc[x])
        BY <4>1, <4>2, <4>4 DEF DictInv
      <4> QED  BY <4>3, <4>4
    <3> QED  BY <3>1, <3>2
  <2> QED  BY <2>1, <2>2, <2>4 DEF DictInv
<1> QED  BY <1>10, <1>13

\* The merge fails with a dictionary built: freed at once, or left to the
\* pool.
LEMMA MergeCreateFailsKeeps ==
  ASSUME ConfigInv, NEW b \in Blocks \ {Http}, MergeCreateFails(b)
  PROVE  ConfigInv'
<1> USE DEF ConfigInv
<1>1. PICK c : c = Inherited(b)
  OBVIOUS
<1>2. /\ Mergeable(b) /\ ReadDictFile /\ cdicts' \in CreateFailures(c)
      /\ phase' = "failed"
      /\ UNCHANGED <<at, opened, rest, loc, merged, declared, runtime, hooks>>
  BY <1>1 DEF MergeCreateFails
<1>3. c.level \in Int /\ c.window \in Int
  BY <1>1, <1>2, InheritedFacts
<1>4. cdicts \in Seq(CDicts)
  BY DEF TypeInv
<1>5. PICK o \in BOOLEAN, r \in BOOLEAN : cdicts' = NewCDict(c, o, o, r)
  BY <1>2 DEF CreateFailures
<1>6. PICK n \in Nat : n = Len(cdicts) + 1
  BY <1>4
<1>7. /\ cdicts' \in Seq(CDicts)
      /\ DOMAIN cdicts' = DOMAIN cdicts \cup {n} /\ n \notin DOMAIN cdicts
      /\ \A k \in DOMAIN cdicts : cdicts'[k] = cdicts[k]
      /\ cdicts'[n].live = o /\ cdicts'[n].owned = o
  <2>1. /\ cdicts' \in Seq(CDicts) /\ Len(cdicts) \in Nat
        /\ DOMAIN cdicts = 1 .. Len(cdicts) /\ DOMAIN cdicts' = 1 .. Len(cdicts) + 1
        /\ \A k \in DOMAIN cdicts : cdicts'[k] = cdicts[k]
        /\ cdicts'[n].live = o /\ cdicts'[n].owned = o
    BY <1>3, <1>4, <1>5, <1>6, NewCDictFacts
  <2>2. \A l \in Nat : 1 .. l + 1 = (1 .. l) \cup {l + 1} /\ l + 1 \notin 1 .. l
    OBVIOUS
  <2> QED  BY <1>6, <2>1, <2>2
<1>8. BufferRead
  BY <1>2, BufferIsRead
<1>9. TypeInv'  BY <1>2, <1>7, <1>8 DEF TypeInv, BufferRead
<1>10. MergeInv'  BY <1>2 DEF MergeInv
<1>11. FromParent'  BY <1>2 DEF FromParent
<1>12. LatchInv'  BY <1>2, <1>8 DEF LatchInv, BufferRead
<1>13. HookInv'  BY <1>2 DEF HookInv
<1>14. SwitchInv'  BY <1>2, <1>8 DEF SwitchInv, BufferRead
<1>15. ListInv'  BY <1>2, <1>8 DEF ListInv, Vouched, BufferRead
<1>16. DictInv'
  <2>1. phase # "gone"
    BY <1>2 DEF Mergeable
  <2>2. ASSUME NEW k \in DOMAIN cdicts'
        PROVE  /\ cdicts'[k].owned => cdicts'[k].live
               /\ cdicts'[k].live => cdicts'[k].owned
    <3>1. CASE k = n
      BY <1>7, <3>1
    <3>2. CASE k \in DOMAIN cdicts
      BY <1>7, <2>1, <3>2 DEF DictInv
    <3> QED  BY <1>7, <3>1, <3>2
  <2>3. ASSUME NEW x \in merged'
        PROVE  IF Wants(loc[x])'
               THEN /\ loc'[x].dict \in DOMAIN cdicts'
                    /\ cdicts'[loc'[x].dict].level = loc'[x].level
                    /\ cdicts'[loc'[x].dict].window = loc'[x].window
               ELSE loc'[x].dict = NoDict
    <3>1. Wants(loc[x])' <=> Wants(loc[x])
      BY <1>2, <1>8 DEF Wants, BufferRead
    <3>2. CASE Wants(loc[x])
      <4>1. /\ loc[x].dict \in DOMAIN cdicts
            /\ cdicts[loc[x].dict].level = loc[x].level
            /\ cdicts[loc[x].dict].window = loc[x].window
        BY <1>2, <3>2 DEF DictInv
      <4> QED  BY <1>2, <1>7, <3>1, <3>2, <4>1
    <3>3. CASE ~ Wants(loc[x])
      BY <1>2, <3>1, <3>3 DEF DictInv
    <3> QED  BY <3>2, <3>3
  <2> QED  BY <1>2, <2>2, <2>3 DEF DictInv
<1> QED
  BY <1>9, <1>10, <1>11, <1>12, <1>13, <1>14, <1>15, <1>16

LEMMA PostConfigurationKeeps ==
  ASSUME ConfigInv, PostConfiguration
  PROVE  ConfigInv'
<1> USE DEF ConfigInv
<1>1. /\ phase = "merge" /\ phase' = "init"
      /\ hooks' = (IF main.any THEN {"filter"} ELSE {})
                    \cup (IF main.anyStatic THEN {"static"} ELSE {})
      /\ UNCHANGED <<at, opened, rest, main, loc, merged, declared, cdicts, runtime>>
  BY DEF PostConfiguration
<1>2. TypeInv'  BY <1>1 DEF TypeInv
<1>3. MergeInv'  BY <1>1 DEF MergeInv
<1>4. FromParent'  BY <1>1 DEF FromParent
<1>5. LatchInv'  BY <1>1 DEF LatchInv
<1>6. HookInv'  BY <1>1 DEF HookInv
<1>7. SwitchInv'  BY <1>1 DEF SwitchInv
<1>8. ListInv'  BY <1>1 DEF ListInv, Vouched
<1>9. DictInv'  BY <1>1 DEF DictInv, Wants
<1> QED  BY <1>2, <1>3, <1>4, <1>5, <1>6, <1>7, <1>8, <1>9

LEMMA InitModuleKeeps == ASSUME ConfigInv, InitModule PROVE ConfigInv'
<1> USE DEF ConfigInv
<1>1. /\ phase = "init" /\ runtime' \in Runtimes
      /\ phase' = IF VersionRefused(runtime') THEN "failed" ELSE "run"
      /\ UNCHANGED <<at, opened, rest, main, loc, merged, declared, cdicts, hooks>>
  BY DEF InitModule
<1>2. runtime' \in Int /\ phase' \in {"failed", "run"}
  BY <1>1, VersionNumbers
<1>3. TypeInv'  BY <1>1, <1>2 DEF TypeInv
<1>4. MergeInv'  BY <1>1, <1>2 DEF MergeInv
<1>5. FromParent'  BY <1>1 DEF FromParent
<1>6. LatchInv'  BY <1>1 DEF LatchInv
<1>7. HookInv'
  <2>1. phase' = "run" => ~ VersionRefused(runtime)'
    BY <1>1 DEF VersionRefused
  <2> QED  BY <1>1, <1>2, <2>1 DEF HookInv
<1>8. SwitchInv'  BY <1>1, <1>2 DEF SwitchInv
<1>9. ListInv'  BY <1>1 DEF ListInv, Vouched
<1>10. DictInv'  BY <1>1, <1>2 DEF DictInv, Wants
<1> QED  BY <1>3, <1>4, <1>5, <1>6, <1>7, <1>8, <1>9, <1>10

LEMMA DestroyPoolKeeps == ASSUME ConfigInv, DestroyPool PROVE ConfigInv'
<1> USE DEF ConfigInv
<1>1. /\ phase \in {"run", "failed"} /\ phase' = "gone"
      /\ cdicts' = [k \in DOMAIN cdicts |->
                      [cdicts[k] EXCEPT !.live = cdicts[k].live /\ ~ cdicts[k].owned]]
      /\ UNCHANGED <<at, opened, rest, main, loc, merged, declared, runtime, hooks>>
  BY DEF DestroyPool
<1>2. cdicts \in Seq(CDicts) /\ DOMAIN cdicts = 1 .. Len(cdicts) /\ Len(cdicts) \in Nat
  BY DEF TypeInv
<1>3. DOMAIN cdicts' = DOMAIN cdicts
  BY <1>1
<1>4. ASSUME NEW k \in DOMAIN cdicts
      PROVE  /\ cdicts'[k] \in CDicts /\ cdicts'[k].live = FALSE
             /\ cdicts'[k].level = cdicts[k].level
             /\ cdicts'[k].window = cdicts[k].window
  <2>1. cdicts[k] \in CDicts
    BY <1>2
  <2>2. cdicts[k].live => cdicts[k].owned
    BY DEF DictInv
  <2>3. (cdicts[k].live /\ ~ cdicts[k].owned) = FALSE
    BY <2>2
  <2>4. cdicts'[k] = [cdicts[k] EXCEPT !.live = FALSE]
    BY <1>1, <2>3
  <2> QED  BY <2>1, <2>4 DEF CDicts
<1>5. cdicts' \in Seq(CDicts)
  <2>1. cdicts' \in [1 .. Len(cdicts) -> CDicts]
    BY <1>1, <1>2, <1>3, <1>4
  <2> QED  BY <1>2, <2>1
<1>6. TypeInv'  BY <1>1, <1>5 DEF TypeInv
<1>7. MergeInv'  BY <1>1 DEF MergeInv
<1>8. FromParent'  BY <1>1 DEF FromParent
<1>9. LatchInv'  BY <1>1 DEF LatchInv
<1>10. HookInv'  BY <1>1 DEF HookInv
<1>11. SwitchInv'  BY <1>1 DEF SwitchInv
<1>12. ListInv'  BY <1>1 DEF ListInv, Vouched
<1>13. DictInv'
  <2>1. ASSUME NEW x \in merged'
        PROVE  IF Wants(loc[x])'
               THEN /\ loc'[x].dict \in DOMAIN cdicts'
                    /\ cdicts'[loc'[x].dict].level = loc'[x].level
                    /\ cdicts'[loc'[x].dict].window = loc'[x].window
               ELSE loc'[x].dict = NoDict
    <3>1. Wants(loc[x])' <=> Wants(loc[x])
      BY <1>1 DEF Wants
    <3>2. CASE Wants(loc[x])
      <4>1. /\ loc[x].dict \in DOMAIN cdicts
            /\ cdicts[loc[x].dict].level = loc[x].level
            /\ cdicts[loc[x].dict].window = loc[x].window
        BY <1>1, <3>2 DEF DictInv
      <4> QED  BY <1>1, <1>3, <1>4, <3>1, <3>2, <4>1
    <3>3. CASE ~ Wants(loc[x])
      BY <1>1, <3>1, <3>3 DEF DictInv
    <3> QED  BY <3>2, <3>3
  <2>2. \A k \in DOMAIN cdicts' : ~ cdicts'[k].live
    BY <1>3, <1>4
  <2> QED  BY <1>1, <2>1, <2>2 DEF DictInv
<1> QED
  BY <1>6, <1>7, <1>8, <1>9, <1>10, <1>11, <1>12, <1>13

-----------------------------------------------------------------------------
(* Theorems *)

LEMMA InitConfig == Init => ConfigInv
<1> SUFFICES ASSUME Init PROVE ConfigInv
  OBVIOUS
<1>1. NewLoc \in DeclaredConfs /\ NewLoc.dicts.list = <<>>
  BY DEF NewLoc, DeclaredConfs, UNSET, LEVEL_UNSET, NoList, NoDict
<1>2. NewMain \in MainConfs
  BY DEF NewMain, MainConfs, UNSET
<1>3. /\ loc = [b \in Blocks |-> NewLoc] /\ declared = loc /\ merged = {}
      /\ phase = "parse" /\ cdicts = <<>> /\ main = NewMain
      /\ at = Http /\ runtime = 0
      /\ rest \in [of : SUBSET Directives, bound : Int]
  BY FileTypes DEF Init
<1>4. TypeInv
  BY <1>1, <1>2, <1>3, DeclaredIsLocConf DEF TypeInv
<1>5. MergeInv
  BY <1>3 DEF MergeInv, NewMain
<1>6. FromParent
  BY <1>3 DEF FromParent
<1>7. LatchInv
  BY <1>3 DEF LatchInv, NewLoc, UNSET, LEVEL_UNSET
<1>8. HookInv
  BY <1>3 DEF HookInv
<1>9. SwitchInv
  BY <1>1, <1>3 DEF SwitchInv, NewMain
<1>10. ListInv
  BY <1>1, <1>3 DEF ListInv
<1>11. DictInv
  BY <1>3 DEF DictInv
<1> QED
  BY <1>4, <1>5, <1>6, <1>7, <1>8, <1>9, <1>10, <1>11 DEF ConfigInv

LEMMA ParseKeeps == ASSUME ConfigInv, Parse PROVE ConfigInv'
<1>1. TypeInv
  BY DEF ConfigInv
<1>2. ASSUME NEW b \in Blocks \ {Http}, EnterBlock(b) PROVE ConfigInv'
  BY <1>1, <1>2, FrameKeeps DEF EnterBlock, TypeInv
<1>3. CASE LeaveBlock
  <2>1. at' \in Blocks
    BY <1>1, <1>3 DEF LeaveBlock, TypeInv
  <2> QED  BY <1>1, <1>3, <2>1, FrameKeeps DEF LeaveBlock, TypeInv
<1>4. ASSUME Fail, phase # "gone" PROVE ConfigInv'
  BY <1>1, <1>4, FrameKeeps DEF Fail, TypeInv
<1>5. ASSUME NEW d \in rest.of,
             \/ d.name \in {"strict", "trust", "unsafe"} /\ SetMain(d.name, d.value)
             \/ d.name = "file" /\ SetDictFile
             \/ /\ d.name \in {"enable", "static", "level", "window", "cblock"}
                /\ SetLoc(d.name, d.value)
             \/ d.name = "dcz" /\ DczDictFile(d.file, d.value)
             \/ d.name = "dcz" /\ DczFails
             \/ Duplicate(d)
      PROVE  ConfigInv'
  <2>1. CASE d.name \in {"strict", "trust", "unsafe"} /\ SetMain(d.name, d.value)
    <3>1. d.value \in {0, 1}
      BY <1>1, <2>1, DirectiveTypes
    <3> QED  BY <2>1, <3>1, SetMainKeeps
  <2>2. CASE SetDictFile
    BY <2>2, SetDictFileKeeps
  <2>3. CASE /\ d.name \in {"enable", "static", "level", "window", "cblock"}
             /\ SetLoc(d.name, d.value)
    <3>1. d.name \in LocFields
      BY <2>3 DEF LocFields
    <3>2. Accepts(d.name, d.value)
      BY <1>1, <2>3, DirectiveTypes DEF Accepts
    <3> QED  BY <2>3, <3>1, <3>2, SetLocKeeps
  <2>4. CASE d.name = "dcz" /\ DczDictFile(d.file, d.value)
    <3>1. d.file \in DOMAIN Digest /\ d.value \in Int
      BY <1>1, <2>4, DirectiveTypes
    <3> QED  BY <2>4, <3>1, DczDictFileKeeps
  <2>5. CASE DczFails
    BY <1>4, <2>5 DEF DczFails
  <2>6. CASE Duplicate(d)
    BY <1>4, <2>6 DEF Duplicate
  <2> QED  BY <1>5, <2>1, <2>2, <2>3, <2>4, <2>5, <2>6
<1> QED  BY <1>2, <1>3, <1>5 DEF Parse

LEMMA NextConfig == ConfigInv /\ [Next]_vars => ConfigInv'
<1> SUFFICES ASSUME ConfigInv, [Next]_vars PROVE ConfigInv'
  OBVIOUS
<1>1. TypeInv
  BY DEF ConfigInv
<1>2. CASE Parse
  BY <1>2, ParseKeeps
<1>3. ASSUME Fail, phase # "gone" PROVE ConfigInv'
  BY <1>1, <1>3, FrameKeeps DEF Fail, TypeInv
<1>4. CASE InitMainConfFails
  BY <1>3, <1>4 DEF InitMainConfFails
<1>5. CASE InitMainConf
  BY <1>5, InitMainConfKeeps
<1>6. ASSUME NEW b \in Blocks \ {Http}, MergeLocConf(b) PROVE ConfigInv'
  BY <1>6, MergeLocConfKeeps
<1>7. ASSUME NEW b \in Blocks \ {Http}, MergeCreates(b) PROVE ConfigInv'
  BY <1>7, MergeCreatesKeeps
<1>8. ASSUME NEW b \in Blocks \ {Http}, MergeCreateFails(b) PROVE ConfigInv'
  BY <1>8, MergeCreateFailsKeeps
<1>9. ASSUME NEW b \in Blocks \ {Http}, MergeFails(b) PROVE ConfigInv'
  BY <1>3, <1>9 DEF MergeFails, Mergeable
<1>10. CASE PostConfiguration
  BY <1>10, PostConfigurationKeeps
<1>11. CASE InitModule
  BY <1>11, InitModuleKeeps
<1>12. CASE DestroyPool
  BY <1>12, DestroyPoolKeeps
<1>13. CASE UNCHANGED vars
  BY <1>1, <1>13, FrameKeeps DEF vars, TypeInv
<1> QED
  BY <1>2, <1>4, <1>5, <1>6, <1>7, <1>8, <1>9, <1>10, <1>11, <1>12, <1>13 DEF Next

(* The invariant of a configuration load, for every file and every tree of  *)
(* blocks (filter_module.c:4074-4203, :5121-5540, :6407-6714).              *)
THEOREM ConfigInvariant == Spec => []ConfigInv
BY InitConfig, NextConfig, PTL DEF Spec

(* With zstd_dict_strict_path on, wherever it stands in http{}, every       *)
(* dictionary in force was opened by the walk (filter_module.c:4122-4149).  *)
THEOREM StrictHolds == Spec => []StrictCoversAll
<1>1. ASSUME ConfigInv PROVE StrictCoversAll
  <2> SUFFICES ASSUME phase = "run", main.strict = 1
               PROVE  /\ \A e \in AllEntries : e.strict
                      /\ main.buf => main.bufStrict
    BY DEF StrictCoversAll
  <2>1. ~ main.unchecked /\ (main.buf => main.bufStrict)
    BY <1>1 DEF ConfigInv, SwitchInv
  <2>2. ASSUME NEW e \in AllEntries PROVE e.strict
    <3>1. PICK b \in Blocks : e \in ToSet(declared[b].dicts.list)
      BY DEF AllEntries
    <3>2. PICK k \in DOMAIN declared[b].dicts.list : e = declared[b].dicts.list[k]
      BY <3>1 DEF ToSet
    <3> QED  BY <1>1, <2>1, <3>2 DEF ConfigInv, SwitchInv
  <2> QED  BY <2>1, <2>2
<1> QED  BY <1>1, ConfigInvariant, PTL

(* Every dictionary in force goes by the hash of its contents or by a       *)
(* literal the operator wanted trusted (filter_module.c:6487-6542,          *)
(* :6616-6662).                                                             *)
THEOREM HashesAreVouchedFor == Spec => []EntriesVouchedFor
<1>1. ASSUME ConfigInv PROVE EntriesVouchedFor
  <2> SUFFICES ASSUME phase = "run", NEW e \in AllEntries
               PROVE  IF Hashed(e)
                      THEN e.hash = Digest[e.file] /\ e.literal \in {NoLiteral, e.hash}
                      ELSE e.hash = e.literal
    BY DEF EntriesVouchedFor
  <2>1. PICK b \in Blocks : e \in ToSet(declared[b].dicts.list)
    BY DEF AllEntries
  <2>2. PICK k \in DOMAIN declared[b].dicts.list : e = declared[b].dicts.list[k]
    BY <2>1 DEF ToSet
  <2>3. Vouched(e)
    BY <1>1, <2>2 DEF ConfigInv, ListInv
  <2>4. ~ (main.trust = 1 /\ main.verified)
    BY <1>1 DEF ConfigInv, SwitchInv
  <2> QED  BY <2>3, <2>4 DEF Vouched, Hashed
<1> QED  BY <1>1, ConfigInvariant, PTL

(* No location is enabled without the hook that serves it, and none relies  *)
(* on what the loaded library lacks (filter_module.c:5811-5826,             *)
(* static_module.c:2072-2083, ngx_http_zstd_version.h:12-29).               *)
THEOREM EveryLocationIsServed == Spec => []EnabledIsServed
<1>1. ASSUME ConfigInv PROVE EnabledIsServed
  <2> SUFFICES ASSUME phase = "run", NEW b \in merged
               PROVE  /\ loc[b].enable = 1 => "filter" \in hooks
                      /\ loc[b].static > 0 => "static" \in hooks
                      /\ Build >= 10400 /\ loc[b].level < 0 => runtime >= 10400
                      /\ Build >= 10506 /\ loc[b].cblock > 0 => runtime >= 10506
    BY DEF EnabledIsServed, Locations
  <2>1. b \in Blocks /\ Build \in Nat /\ runtime \in Int
    BY <1>1, VersionNumbers DEF ConfigInv, TypeInv
  <2>2. /\ loc[b].enable = 1 => main.any
        /\ loc[b].static > 0 => main.anyStatic
        /\ loc[b].level < 0 => main.negative
        /\ loc[b].cblock > 0 => main.cblock
    BY <1>1, <2>1 DEF ConfigInv, LatchInv
  <2>3. ~ VersionRefused(runtime) /\ (main.any => "filter" \in hooks)
        /\ (main.anyStatic => "static" \in hooks)
    BY <1>1 DEF ConfigInv, HookInv
  <2>4. Build >= 10400 /\ main.negative => runtime >= 10400
    BY <2>1, <2>3 DEF VersionRefused
  <2>5. Build >= 10506 /\ main.cblock => runtime >= 10506
    BY <2>1, <2>3 DEF VersionRefused
  <2> QED  BY <2>2, <2>3, <2>4, <2>5
<1> QED  BY <1>1, ConfigInvariant, PTL

(* An enabled location has a live dictionary of its own level and window,   *)
(* and there is one for each (filter_module.c:5281-5291).                   *)
THEOREM DictionariesMatch == Spec => []DictOfOwnProfile
<1>1. ASSUME ConfigInv PROVE DictOfOwnProfile
  <2> SUFFICES ASSUME phase = "run" PROVE DictOfOwnProfile
    BY DEF DictOfOwnProfile
  <2>1. ASSUME NEW b \in merged
        PROVE  IF Wants(loc[b])
               THEN /\ loc[b].dict # NoDict
                    /\ cdicts[loc[b].dict].live
                    /\ cdicts[loc[b].dict].level = loc[b].level
                    /\ cdicts[loc[b].dict].window = loc[b].window
               ELSE loc[b].dict = NoDict
    <3>1. CASE Wants(loc[b])
      <4>1. /\ loc[b].dict \in DOMAIN cdicts
            /\ cdicts[loc[b].dict].level = loc[b].level
            /\ cdicts[loc[b].dict].window = loc[b].window
        BY <1>1, <3>1 DEF ConfigInv, DictInv
      <4>2. cdicts[loc[b].dict].live
        BY <1>1, <4>1 DEF ConfigInv, DictInv
      <4>3. loc[b].dict # NoDict
        <5>1. cdicts \in Seq(CDicts)
          BY <1>1 DEF ConfigInv, TypeInv
        <5> QED  BY <4>1, <5>1 DEF NoDict
      <4> QED  BY <3>1, <4>1, <4>2, <4>3
    <3>2. CASE ~ Wants(loc[b])
      BY <1>1, <3>2 DEF ConfigInv, DictInv
    <3> QED  BY <3>1, <3>2
  <2>2. \A j, k \in DOMAIN cdicts :
          cdicts[j].level = cdicts[k].level /\ cdicts[j].window = cdicts[k].window
            => j = k
    BY <1>1 DEF ConfigInv, DictInv
  <2> QED  BY <2>1, <2>2 DEF DictOfOwnProfile, Locations
<1> QED  BY <1>1, ConfigInvariant, PTL

(* No prepared dictionary is freed while its pool lives, and none is left   *)
(* when it is gone (filter_module.c:5448-5483).                             *)
THEOREM DictionariesAreFreed == Spec => []DictsFreedOnce
<1>1. ConfigInv => DictsFreedOnce
  BY DEF ConfigInv, DictInv, DictsFreedOnce
<1> QED  BY <1>1, ConfigInvariant, PTL

-----------------------------------------------------------------------------
(* The tree of blocks *)

\* Sets that have the parents of what they have.
Closed(S) == S \in SUBSET Blocks /\ \A y \in S \ {Http} : Parent[y] \in S

\* Around[b] is the least closed set with b.
LEMMA AroundIsLeast ==
  ASSUME NEW b \in Blocks
  PROVE  /\ Around[b] \subseteq Blocks /\ b \in Around[b] /\ Closed(Around[b])
         /\ \A S : Closed(S) /\ b \in S => Around[b] \subseteq S
<1>1. Around[b] = {x \in Blocks : \A S \in SUBSET Blocks : Closed(S) /\ b \in S => x \in S}
  BY DEF Around, Closed
<1>2. Around[b] \subseteq Blocks /\ b \in Around[b]
  BY <1>1
<1>3. \A S : Closed(S) /\ b \in S => Around[b] \subseteq S
  BY <1>1 DEF Closed
<1>4. ASSUME NEW y \in Around[b] \ {Http} PROVE Parent[y] \in Around[b]
  <2>1. Parent[y] \in Blocks
    BY <1>2, HttpIsTop
  <2>2. ASSUME NEW S \in SUBSET Blocks, Closed(S), b \in S PROVE Parent[y] \in S
    BY <1>3, <2>2 DEF Closed
  <2> QED  BY <1>1, <2>1, <2>2
<1> QED  BY <1>2, <1>3, <1>4 DEF Closed

\* Step by step outwards, and never back.
LEMMA AroundStep ==
  ASSUME NEW b \in Blocks \ {Http}
  PROVE  /\ Parent[b] \in Blocks
         /\ Around[b] = {b} \cup Around[Parent[b]]
         /\ b \notin Around[Parent[b]]
<1>1. Parent[b] \in Blocks
  BY HttpIsTop
<1>2. \A z \in Blocks \ {Http} : Around[z] = {z} \cup Around[Parent[z]]
  <2> TAKE z \in Blocks \ {Http}
  <2>1. Parent[z] \in Blocks
    BY HttpIsTop
  <2>2. Parent[z] \in Around[z]
    BY AroundIsLeast DEF Closed
  <2>3. Around[Parent[z]] \subseteq Around[z]
    BY <2>1, <2>2, AroundIsLeast
  <2>4. Closed({z} \cup Around[Parent[z]])
    BY <2>1, AroundIsLeast DEF Closed
  <2>5. Around[z] \subseteq {z} \cup Around[Parent[z]]
    BY <2>4, AroundIsLeast
  <2> QED  BY <2>3, <2>5, AroundIsLeast
<1>3. ASSUME b \in Around[Parent[b]] PROVE FALSE
  <2> DEFINE T == {z \in Blocks : b \in Around[z]}
  <2>1. \A y \in T \ {Http} : Parent[y] \in T
    BY <1>2, <1>3, HttpIsTop
  <2>2. Closed(T) /\ b \in T
    BY <2>1, AroundIsLeast DEF Closed
  <2>3. Http \in T
    BY <2>2, AroundIsLeast, HttpIsTop
  <2>4. Closed({Http})
    BY HttpIsTop DEF Closed
  <2>5. Around[Http] \subseteq {Http}
    BY <2>4, AroundIsLeast, HttpIsTop
  <2> QED  BY <2>3, <2>5
<1> QED  BY <1>1, <1>2, <1>3

\* What holds of a block when it holds of its parent holds of every block:
\* otherwise the exceptions would be closed, and http{} one of them.
LEMMA OutwardInduction ==
  ASSUME NEW S, Http \in S,
         \A b \in Blocks \ {Http} : Parent[b] \in S => b \in S
  PROVE  Blocks \subseteq S
<1> SUFFICES ASSUME NEW b \in Blocks \ S PROVE FALSE
  OBVIOUS
<1>1. Closed(Blocks \ S)
  BY HttpIsTop DEF Closed
<1>2. Http \in Blocks \ S
  BY <1>1, AroundIsLeast, HttpIsTop
<1> QED  BY <1>2

\* The nearest block that says something is the block itself, or it is the
\* nearest to its parent.
LEMMA NearestStep ==
  ASSUME NEW b \in Blocks \ {Http}, NEW saying
  PROVE  Nearest(b, saying) = IF b \in saying THEN b ELSE Nearest(Parent[b], saying)
<1>1. CASE b \in saying
  <2>1. b \in Around[b] \cap saying /\ Around[b] \cap saying \subseteq Around[b]
    BY <1>1, AroundIsLeast
  <2>2. ASSUME NEW x \in Around[b] \cap saying, Around[b] \cap saying \subseteq Around[x]
        PROVE  x = b
    <3>1. b \in Around[x]
      BY <2>1, <2>2
    <3>2. x \in Around[Parent[b]] => Around[x] \subseteq Around[Parent[b]]
      BY <2>2, AroundStep, AroundIsLeast
    <3> QED  BY <3>1, <3>2, AroundStep
  <2> QED  BY <1>1, <2>1, <2>2 DEF Nearest, Innermost
<1>2. CASE b \notin saying
  <2>1. Around[b] \cap saying = Around[Parent[b]] \cap saying
    BY <1>2, AroundStep
  <2> QED  BY <1>2, <2>1 DEF Nearest
<1> QED  BY <1>1, <1>2

LEMMA NearestHttp ==
  ASSUME NEW saying PROVE Nearest(Http, saying) = Http
<1>1. Closed({Http})
  BY HttpIsTop DEF Closed
<1>2. Around[Http] = {Http}
  BY <1>1, AroundIsLeast, HttpIsTop
<1> QED
  BY <1>2, HttpIsTop DEF Nearest, Innermost

\* The nearest block is a block, and says something if any block around does.
LEMMA NearestIsABlock ==
  ASSUME NEW b \in Blocks, NEW saying
  PROVE  Nearest(b, saying) \in Blocks
<1> DEFINE S == {x \in Blocks : Nearest(x, saying) \in Blocks}
<1>1. Http \in S
  BY NearestHttp, HttpIsTop
<1>2. \A x \in Blocks \ {Http} : Parent[x] \in S => x \in S
  BY NearestStep
<1>3. Blocks \subseteq S
  <2> HIDE DEF S
  <2> QED  BY <1>1, <1>2, OutwardInduction
<1> QED  BY <1>3

-----------------------------------------------------------------------------
(* Sorting and searching a list *)

\* No hash twice.
Distinct(list) == \A j, k \in DOMAIN list : list[j].hash = list[k].hash => j = k

\* The entries of a set in front of one.
Below(set, e) == {x \in set : x.hash < e.hash}

\* There are as many entries as places, and they are told apart by their hash.
LEMMA EntriesOfList ==
  ASSUME NEW list \in Seq(DictEntries), Distinct(list)
  PROVE  /\ Len(list) \in Nat /\ DOMAIN list = 1 .. Len(list)
         /\ ToSet(list) \subseteq DictEntries
         /\ IsFiniteSet(ToSet(list)) /\ Cardinality(ToSet(list)) = Len(list)
         /\ \A e, f \in ToSet(list) : e.hash = f.hash => e = f
<1>1. /\ Len(list) \in Nat /\ DOMAIN list = 1 .. Len(list)
      /\ \A k \in 1 .. Len(list) : list[k] \in DictEntries
  OBVIOUS
<1>2. ToSet(list) \subseteq DictEntries
  BY <1>1 DEF ToSet
<1>3. list \in Bijection(1 .. Len(list), ToSet(list))
  <2>1. list \in [1 .. Len(list) -> ToSet(list)]
    BY <1>1 DEF ToSet
  <2>2. \A j, k \in 1 .. Len(list) : list[j] = list[k] => j = k
    BY <1>1 DEF Distinct
  <2>3. \A e \in ToSet(list) : \E k \in 1 .. Len(list) : list[k] = e
    BY <1>1 DEF ToSet
  <2> QED  BY <2>1, <2>2, <2>3 DEF Bijection, Injection, Surjection, IsInjective
<1>4. ExistsBijection(1 .. Len(list), ToSet(list))
  BY <1>3 DEF ExistsBijection
<1>5. IsFiniteSet(ToSet(list)) /\ Cardinality(ToSet(list)) = Len(list)
  <2>1. IsFiniteSet(1 .. Len(list))
    BY <1>1, FS_Interval
  <2> QED  BY <1>1, <1>4, <2>1, FS_Bijection, FS_CountingElements
<1>6. \A e, f \in ToSet(list) : e.hash = f.hash => e = f
  BY <1>1 DEF ToSet, Distinct
<1> QED  BY <1>1, <1>2, <1>5, <1>6

\* The number of entries below one tells its place: an entry with a smaller
\* hash has fewer, and every number up to the length occurs.
LEMMA Places ==
  ASSUME NEW list \in Seq(DictEntries), Distinct(list)
  PROVE  /\ \A e \in ToSet(list) : Cardinality(Below(ToSet(list), e)) \in 0 .. Len(list) - 1
         /\ \A e, f \in ToSet(list) : e.hash < f.hash =>
              Cardinality(Below(ToSet(list), e)) < Cardinality(Below(ToSet(list), f))
         /\ \A k \in 1 .. Len(list) : \E e \in ToSet(list) :
              Cardinality(Below(ToSet(list), e)) = k - 1
<1>1. PICK S : S = ToSet(list)
  OBVIOUS
<1>2. PICK n \in Nat : n = Len(list)
  BY EntriesOfList
<1>3. /\ IsFiniteSet(S) /\ Cardinality(S) = n /\ S \subseteq DictEntries
      /\ \A e, f \in S : e.hash = f.hash => e = f
  BY <1>1, <1>2, EntriesOfList
<1>4. \A e \in S : e.hash \in Int
  BY <1>3 DEF DictEntries
<1>5. ASSUME NEW e \in S
      PROVE  IsFiniteSet(Below(S, e)) /\ Cardinality(Below(S, e)) \in 0 .. n - 1
  <2>1. Below(S, e) \in SUBSET S /\ e \notin Below(S, e)
    BY <1>4 DEF Below
  <2>2. /\ IsFiniteSet(Below(S, e)) /\ Cardinality(Below(S, e)) <= n
        /\ Cardinality(Below(S, e)) # n
    BY <1>3, <2>1, FS_Subset
  <2>3. Cardinality(Below(S, e)) \in Nat
    BY <2>2, FS_CardinalityType
  <2> QED  BY <2>2, <2>3
<1>6. ASSUME NEW e \in S, NEW f \in S, e.hash < f.hash
      PROVE  Cardinality(Below(S, e)) < Cardinality(Below(S, f))
  <2>1. /\ Below(S, e) \in SUBSET Below(S, f)
        /\ e \in Below(S, f) /\ e \notin Below(S, e)
    BY <1>4, <1>6 DEF Below
  <2>2. /\ Cardinality(Below(S, e)) <= Cardinality(Below(S, f))
        /\ Cardinality(Below(S, e)) # Cardinality(Below(S, f))
    BY <1>5, <2>1, FS_Subset
  <2> QED  BY <1>5, <2>2
<1>7. ASSUME NEW k \in 1 .. n PROVE \E e \in S : Cardinality(Below(S, e)) = k - 1
  <2> DEFINE place == [e \in S |-> Cardinality(Below(S, e))]
  <2>1. place \in [S -> 0 .. n - 1]
    BY <1>5
  <2>2. \A e, f \in S : place[e] = place[f] => e = f
    <3> SUFFICES ASSUME NEW e \in S, NEW f \in S, e # f PROVE place[e] # place[f]
      OBVIOUS
    <3>1. e.hash \in Int /\ f.hash \in Int /\ e.hash # f.hash
      BY <1>3, <1>4
    <3>2. e.hash < f.hash \/ f.hash < e.hash
      BY <3>1
    <3>3. place[e] \in Int /\ place[f] \in Int
      BY <1>5
    <3> QED  BY <1>6, <3>2, <3>3
  <2>3. place \in Injection(S, 0 .. n - 1)
    <3> HIDE DEF place
    <3> QED  BY <2>1, <2>2 DEF Injection, IsInjective
  <2>4. IsFiniteSet(0 .. n - 1) /\ Cardinality(0 .. n - 1) = n
    BY FS_Interval
  <2>5. place \in Surjection(S, 0 .. n - 1)
    <3> HIDE DEF place
    <3> QED  BY <1>3, <2>3, <2>4, FS_Injection
  <2>6. \E e \in S : place[e] = k - 1
    <3> HIDE DEF place
    <3>1. k - 1 \in 0 .. n - 1
      OBVIOUS
    <3> QED  BY <2>5, <3>1 DEF Surjection
  <2> QED  BY <2>6
<1> QED  BY <1>1, <1>2, <1>5, <1>6, <1>7

\* Sorting loses nothing and puts smaller hashes first.
LEMMA SortFacts ==
  ASSUME NEW list \in Seq(DictEntries), Distinct(list),
         NEW sorted, sorted = DczDictSort(list)
  PROVE  /\ sorted \in Seq(DictEntries) /\ Len(sorted) = Len(list)
         /\ ToSet(sorted) = ToSet(list)
         /\ \A j, k \in 1 .. Len(sorted) : j < k => sorted[j].hash < sorted[k].hash
<1>1. PICK S : S = ToSet(list)
  OBVIOUS
<1>2. /\ Len(list) \in Nat /\ DOMAIN list = 1 .. Len(list) /\ S \subseteq DictEntries
      /\ \A e, f \in S : e.hash = f.hash => e = f
  BY <1>1, EntriesOfList
<1>3. sorted = [k \in 1 .. Len(list) |-> CHOOSE e \in S : Cardinality(Below(S, e)) = k - 1]
  BY <1>1, <1>2 DEF DczDictSort, Below
<1>4. \A k \in 1 .. Len(list) :
        sorted[k] \in S /\ Cardinality(Below(S, sorted[k])) = k - 1
  <2> TAKE k \in 1 .. Len(list)
  <2>1. \E e \in S : Cardinality(Below(S, e)) = k - 1
    BY <1>1, Places
  <2> QED  BY <1>3, <2>1
<1>5. sorted \in Seq(DictEntries) /\ Len(sorted) = Len(list) /\ DOMAIN sorted = 1 .. Len(list)
  <2>1. sorted \in [1 .. Len(list) -> DictEntries]
    BY <1>2, <1>3, <1>4
  <2> QED  BY <1>2, <2>1
<1>6. \A e \in S : e.hash \in Int
  BY <1>2 DEF DictEntries
<1>7. ASSUME NEW j \in 1 .. Len(list), NEW k \in 1 .. Len(list), j < k
      PROVE  sorted[j].hash < sorted[k].hash
  <2>1. /\ sorted[j] \in S /\ sorted[k] \in S
        /\ Cardinality(Below(S, sorted[j])) < Cardinality(Below(S, sorted[k]))
    BY <1>2, <1>4, <1>7
  <2>2. sorted[k].hash < sorted[j].hash =>
          Cardinality(Below(S, sorted[k])) < Cardinality(Below(S, sorted[j]))
    BY <1>1, <2>1, Places
  <2>3. sorted[k].hash # sorted[j].hash
    BY <1>2, <1>4, <1>7, <2>1
  <2>4. Cardinality(Below(S, sorted[k])) = k - 1 /\ Cardinality(Below(S, sorted[j])) = j - 1
    BY <1>4
  <2> QED  BY <1>2, <1>6, <1>7, <2>1, <2>2, <2>3, <2>4
<1>8. ToSet(sorted) = S
  <2>1. ToSet(sorted) \subseteq S
    BY <1>4, <1>5 DEF ToSet
  <2>2. ASSUME NEW e \in S PROVE e \in ToSet(sorted)
    <3>1. PICK k \in 1 .. Len(list) : k - 1 = Cardinality(Below(S, e))
      <4>1. PICK c \in 0 .. Len(list) - 1 : c = Cardinality(Below(S, e))
        BY <1>1, Places
      <4>2. c + 1 \in 1 .. Len(list) /\ (c + 1) - 1 = c
        BY <1>2
      <4> QED  BY <4>1, <4>2
    <3>2. sorted[k] \in S /\ Cardinality(Below(S, sorted[k])) = Cardinality(Below(S, e))
      BY <1>4, <3>1
    <3>3. Cardinality(Below(S, e)) \in Int
      BY <3>1, <1>2
    <3>4. ~ (sorted[k].hash < e.hash) /\ ~ (e.hash < sorted[k].hash)
      BY <1>1, <3>2, <3>3, Places
    <3>5. sorted[k] = e
      BY <1>2, <1>6, <3>2, <3>4
    <3> QED  BY <1>5, <3>5 DEF ToSet
  <2> QED  BY <2>1, <2>2
<1> QED  BY <1>1, <1>5, <1>7, <1>8

\* One turn of the loop, the rest of which is f.
Turn(list, hash, f, r) ==
  IF r[1] > r[2] THEN 0
  ELSE IF list[Mid(r)].hash = hash THEN Mid(r)
  ELSE f[Half(list, hash, r)]

\* How much is left to do.
Width(list, r) == r[2] - r[1] + 1 + Len(list)

LEMMA Widths ==
  ASSUME NEW list, Len(list) \in Nat, NEW hash, NEW r \in Ranges(list)
  PROVE  /\ r[1] \in 1 .. Len(list) + 1 /\ r[2] \in 0 .. Len(list)
         /\ Width(list, r) \in Nat /\ Width(list, r) < 2 * Len(list) + 1
         /\ r[1] <= r[2] =>
              /\ Mid(r) \in r[1] .. r[2]
              /\ Half(list, hash, r) \in Ranges(list)
              /\ Width(list, Half(list, hash, r)) < Width(list, r)
<1>1. PICK lo \in 1 .. Len(list) + 1, hi \in 0 .. Len(list) : r = <<lo, hi>>
  BY DEF Ranges
<1>2. r[1] = lo /\ r[2] = hi
  BY <1>1
<1>3. Width(list, r) = hi - lo + 1 + Len(list)
  BY <1>2 DEF Width
<1>4. ASSUME lo <= hi
      PROVE  /\ Mid(r) \in lo .. hi
             /\ Half(list, hash, r) \in Ranges(list)
             /\ Width(list, Half(list, hash, r)) < Width(list, r)
  <2>1. PICK m \in lo .. hi : m = Mid(r)
    <3>1. Mid(r) = (lo + hi) \div 2
      BY <1>2 DEF Mid
    <3> QED  BY <1>4, <3>1
  <2>2. CASE list[m].hash < hash
    <3>1. Half(list, hash, r) = <<m + 1, hi>>
      BY <1>2, <2>1, <2>2 DEF Half
    <3>2. <<m + 1, hi>> \in Ranges(list)
      BY <2>1 DEF Ranges
    <3>3. Width(list, <<m + 1, hi>>) = hi - (m + 1) + 1 + Len(list)
      BY DEF Width
    <3> QED  BY <1>3, <2>1, <3>1, <3>2, <3>3
  <2>3. CASE ~ (list[m].hash < hash)
    <3>1. Half(list, hash, r) = <<lo, m - 1>>
      BY <1>2, <2>1, <2>3 DEF Half
    <3>2. <<lo, m - 1>> \in Ranges(list)
      BY <2>1 DEF Ranges
    <3>3. Width(list, <<lo, m - 1>>) = (m - 1) - lo + 1 + Len(list)
      BY DEF Width
    <3> QED  BY <1>3, <2>1, <3>1, <3>2, <3>3
  <2> QED  BY <2>1, <2>2, <2>3
<1> QED  BY <1>2, <1>3, <1>4

\* The loop ends: there is a function that it computes.
LEMMA LoopEnds ==
  ASSUME NEW list, Len(list) \in Nat, NEW hash
  PROVE  \E f : f = [r \in Ranges(list) |-> Turn(list, hash, f, r)]
<1> DEFINE Solves(f, n) == \A r \in Ranges(list) :
             Width(list, r) < n => f[r] = Turn(list, hash, f, r)
           Solved == {n \in Nat : \E f : Solves(f, n)}
<1>1. 0 \in Solved
  <2>1. Solves(0, 0)
    BY Widths
  <2> QED  BY <2>1
<1>2. ASSUME NEW n \in Solved PROVE n + 1 \in Solved
  <2>1. PICK f : Solves(f, n)
    OBVIOUS
  <2> DEFINE g == [r \in Ranges(list) |-> Turn(list, hash, f, r)]
  <2>2. ASSUME NEW r \in Ranges(list), Width(list, r) < n + 1
        PROVE  g[r] = Turn(list, hash, g, r)
    <3>1. CASE r[1] > r[2]
      BY <3>1 DEF Turn
    <3>2. CASE ~ (r[1] > r[2])
      <4>1. PICK h \in Ranges(list) : h = Half(list, hash, r)
        BY <3>2, Widths
      <4>2. Width(list, h) < n
        <5>1. PICK u \in Nat, v \in Nat : u = Width(list, h) /\ v = Width(list, r)
          BY Widths
        <5>2. u < v
          BY <3>2, <4>1, <5>1, Widths
        <5> QED  BY <2>2, <5>1, <5>2
      <4>3. g[h] = f[h]
        BY <2>1, <4>2
      <4>4. g[r] = Turn(list, hash, f, r)
        OBVIOUS
      <4> QED
        <5> HIDE DEF g
        <5> QED  BY <4>1, <4>3, <4>4 DEF Turn
    <3> QED  BY <3>1, <3>2
  <2>3. Solves(g, n + 1)
    BY <2>2
  <2>4. n + 1 \in Nat
    OBVIOUS
  <2> HIDE DEF g, Solves
  <2> QED  BY <2>3, <2>4
<1>3. Solved = Nat
  <2> DEFINE Bad == Nat \ Solved
  <2> SUFFICES ASSUME Bad # {} PROVE FALSE
    OBVIOUS
  <2>1. PICK m \in Bad : \A n \in Bad : m <= n
    <3>1. Bad \subseteq Nat
      OBVIOUS
    <3> HIDE DEF Bad
    <3> QED  BY <3>1, LeastNat
  <2>2. m \in Nat /\ m # 0
    BY <1>1
  <2>3. m - 1 \in Nat /\ m - 1 \notin Bad
    BY <2>1, <2>2
  <2> HIDE DEF Solved
  <2>4. (m - 1) + 1 \in Solved
    BY <1>2, <2>3
  <2> QED  BY <2>2, <2>4
<1>4. PICK f : Solves(f, 2 * Len(list) + 1)
  <2>1. 2 * Len(list) + 1 \in Nat
    OBVIOUS
  <2> QED  BY <1>3, <2>1
<1>5. \A r \in Ranges(list) : f[r] = Turn(list, hash, f, r)
  BY <1>4, Widths
<1> DEFINE g == [r \in Ranges(list) |-> f[r]]
<1>6. \A r \in Ranges(list) : Turn(list, hash, g, r) = Turn(list, hash, f, r)
  <2> TAKE r \in Ranges(list)
  <2>1. CASE r[1] > r[2]
    BY <2>1 DEF Turn
  <2>2. CASE ~ (r[1] > r[2])
    <3>1. Half(list, hash, r) \in Ranges(list)
      BY <2>2, Widths
    <3>2. g[Half(list, hash, r)] = f[Half(list, hash, r)]
      BY <3>1
    <3> HIDE DEF g
    <3> QED  BY <3>2 DEF Turn
  <2> QED  BY <2>1, <2>2
<1>7. g = [r \in Ranges(list) |-> Turn(list, hash, g, r)]
  BY <1>5, <1>6
<1> HIDE DEF g
<1> QED  BY <1>7

LEMMA BisectDef ==
  ASSUME NEW list, Len(list) \in Nat, NEW hash
  PROVE  \E f : /\ f = [r \in Ranges(list) |-> Turn(list, hash, f, r)]
                /\ Bisect(list, hash) = f[<<1, Len(list)>>]
<1> DEFINE F == CHOOSE f : f = [r \in Ranges(list) |->
             IF r[1] > r[2] THEN 0
             ELSE IF list[Mid(r)].hash = hash THEN Mid(r)
             ELSE f[Half(list, hash, r)]]
<1>1. F = CHOOSE f : f = [r \in Ranges(list) |-> Turn(list, hash, f, r)]
  BY Zenon DEF Turn
<1>2. F = [r \in Ranges(list) |-> Turn(list, hash, F, r)]
  <2> HIDE DEF F
  <2> DEFINE P(f) == f = [r \in Ranges(list) |-> Turn(list, hash, f, r)]
  <2>1. (\E f : P(f)) /\ F = CHOOSE f : P(f)
    BY <1>1, LoopEnds
  <2>2. P(F)
    <3> HIDE DEF P
    <3> QED  BY <2>1
  <2> QED  BY <2>2
<1>3. Bisect(list, hash) = F[<<1, Len(list)>>]
  BY DEF Bisect
<1> QED  BY <1>2, <1>3

\* On a list sorted by hash the loop finds the entry with the hash.
LEMMA BisectFinds ==
  ASSUME NEW list \in Seq(DictEntries),
         \A j, k \in 1 .. Len(list) : j < k => list[j].hash < list[k].hash,
         NEW e \in 1 .. Len(list)
  PROVE  Bisect(list, list[e].hash) = e
<1>1. Len(list) \in Nat /\ \A k \in 1 .. Len(list) : list[k].hash \in Int
  <2>1. Len(list) \in Nat /\ \A k \in 1 .. Len(list) : list[k] \in DictEntries
    OBVIOUS
  <2> QED  BY <2>1 DEF DictEntries
<1>2. PICK hash \in Int : hash = list[e].hash
  BY <1>1
<1>3. PICK f : /\ f = [r \in Ranges(list) |-> Turn(list, hash, f, r)]
               /\ Bisect(list, hash) = f[<<1, Len(list)>>]
  BY <1>1, BisectDef
<1>4. \A r \in Ranges(list) : f[r] = Turn(list, hash, f, r)
  BY <1>3, Zenon
<1> DEFINE Misses(r) == r \in Ranges(list) /\ r[1] <= e /\ e <= r[2] /\ f[r] # e
           Bad == {w \in Nat : \E r : Misses(r) /\ w = Width(list, r)}
<1>5. ASSUME NEW r, Misses(r)
      PROVE  \E h : Misses(h) /\ Width(list, h) \in Nat /\ Width(list, h) < Width(list, r)
  <2>1. PICK lo \in Nat, hi \in Nat :
          lo = r[1] /\ hi = r[2] /\ 1 <= lo /\ hi <= Len(list)
    <3>1. r \in Ranges(list)
      BY <1>5
    <3>2. r[1] \in 1 .. Len(list) + 1 /\ r[2] \in 0 .. Len(list)
      BY <1>1, <3>1, Widths
    <3>3. r[1] \in Nat /\ r[2] \in Nat /\ 1 <= r[1] /\ r[2] <= Len(list)
      BY <1>1, <3>2
    <3> QED  BY <3>3
  <2>2. r \in Ranges(list) /\ lo <= e /\ e <= hi /\ f[r] # e /\ lo <= hi
    BY <1>1, <1>5, <2>1
  <2>3. PICK m \in lo .. hi : m = Mid(r)
    BY <1>1, <2>1, <2>2, Widths
  <2>4. PICK h : /\ h = Half(list, hash, r) /\ h \in Ranges(list)
                 /\ Width(list, h) < Width(list, r) /\ Width(list, h) \in Nat
    BY <1>1, <2>1, <2>2, Widths
  <2>5. m \in 1 .. Len(list)
    BY <1>1, <2>1, <2>2, <2>3
  <2>6. list[m].hash # hash
    <3> SUFFICES ASSUME list[m].hash = hash PROVE FALSE
      OBVIOUS
    <3>1. f[r] = m
      BY <1>4, <2>1, <2>2, <2>3 DEF Turn
    <3>2. m < e \/ e < m
      BY <2>2, <2>5, <3>1
    <3> QED  BY <1>1, <1>2, <2>5, <3>2
  <2>7. f[r] = f[h]
    BY <1>4, <2>1, <2>2, <2>3, <2>4, <2>6 DEF Turn
  <2>8. CASE list[m].hash < hash
    <3>1. h = <<m + 1, hi>>
      BY <2>1, <2>3, <2>4, <2>8 DEF Half
    <3>2. m < e
      <4> SUFFICES ASSUME e < m PROVE FALSE
        BY <1>1, <1>2, <2>5, <2>6
      <4> QED  BY <1>1, <1>2, <2>5, <2>8
    <3>3. h[1] <= e /\ e <= h[2]
      BY <2>2, <2>5, <3>1, <3>2
    <3> QED  BY <2>2, <2>4, <2>7, <3>3
  <2>9. CASE ~ (list[m].hash < hash)
    <3>1. h = <<lo, m - 1>>
      BY <2>1, <2>3, <2>4, <2>9 DEF Half
    <3>2. e < m
      <4> SUFFICES ASSUME m < e PROVE FALSE
        BY <1>1, <1>2, <2>5, <2>6
      <4> QED  BY <1>1, <1>2, <2>5, <2>9
    <3>3. h[1] <= e /\ e <= h[2]
      BY <2>2, <2>5, <3>1, <3>2
    <3> QED  BY <2>2, <2>4, <2>7, <3>3
  <2> QED  BY <2>8, <2>9
<1>6. Bad = {}
  <2> SUFFICES ASSUME Bad # {} PROVE FALSE
    OBVIOUS
  <2>1. PICK w \in Bad : \A v \in Bad : w <= v
    <3>1. Bad \subseteq Nat
      OBVIOUS
    <3> HIDE DEF Bad
    <3> QED  BY <3>1, LeastNat
  <2>2. PICK r : Misses(r) /\ w = Width(list, r) /\ w \in Nat
    OBVIOUS
  <2>3. PICK h : Misses(h) /\ Width(list, h) \in Nat /\ Width(list, h) < w
    BY <1>5, <2>2
  <2>4. Width(list, h) \in Bad
    BY <2>3
  <2>5. PICK v \in Nat : v = Width(list, h) /\ v < w
    BY <2>3
  <2> QED
    <3> HIDE DEF Bad
    <3> QED  BY <2>1, <2>2, <2>4, <2>5
<1>7. ~ Misses(<<1, Len(list)>>)
  <2> SUFFICES ASSUME Misses(<<1, Len(list)>>) PROVE FALSE
    OBVIOUS
  <2>1. Width(list, <<1, Len(list)>>) \in Nat
    BY <1>1, Widths
  <2> QED  BY <1>6, <2>1
<1>8. <<1, Len(list)>> \in Ranges(list)
  BY <1>1 DEF Ranges
<1> QED  BY <1>1, <1>2, <1>3, <1>7, <1>8

-----------------------------------------------------------------------------
(* What a location ends up with *)

\* The settings of a merged block are those of the nearest blocks that have
\* them; the list of http{} is taken as it is, any other is sorted.
HasNearest(b) ==
  LET said(field) == declared[Nearest(b, Says(field))][field]
      level == declared[Nearest(b, LevelSet)].level
      from  == Nearest(b, ListSet)
  IN /\ \A field \in MacroMerged :
          loc[b][field] = IF said(field) = UNSET THEN 0 ELSE said(field)
     /\ loc[b].level = IF level = LEVEL_UNSET THEN DefaultLevel ELSE level
     /\ loc[b].dicts.list = IF from = Http THEN declared[Http].dicts.list
                            ELSE DczDictSort(declared[from].dicts.list)

LEMMA AllHaveNearest == ASSUME ConfigInv PROVE \A b \in merged : HasNearest(b)
<1> DEFINE S == {x \in Blocks : x \in merged => HasNearest(x)}
<1>1. merged \subseteq Blocks \ {Http}
  BY DEF ConfigInv, TypeInv
<1>2. Http \in S
  BY <1>1, HttpIsTop
<1>3. ASSUME NEW b \in Blocks \ {Http}, Parent[b] \in S PROVE b \in S
  <2> SUFFICES ASSUME b \in merged PROVE HasNearest(b)
    OBVIOUS
  <2>1. PICK p \in Blocks : p = Parent[b] /\ p \in merged \cup {Http}
    BY <1>1, HttpIsTop DEF ConfigInv, MergeInv
  <2>2. p # Http => HasNearest(p)
    BY <1>3, <2>1
  <2>3. loc[Http] = declared[Http]
    BY <1>1, HttpIsTop DEF ConfigInv, MergeInv
  <2>4. /\ \A field \in MacroMerged :
             loc[b][field] = Inherit(declared[b][field], loc[p][field], 0)
        /\ loc[b].level = InheritLevel(declared[b].level, loc[p].level)
        /\ loc[b].dicts = MergeDicts(declared[b].dicts, loc[p].dicts)
    BY <2>1 DEF ConfigInv, FromParent, MacroMerged
  <2> HIDE DEF S
  <2>5. ASSUME NEW field \in MacroMerged
        PROVE  loc[b][field] =
                 IF declared[Nearest(b, Says(field))][field] = UNSET THEN 0
                 ELSE declared[Nearest(b, Says(field))][field]
    <3>1. CASE declared[b][field] # UNSET
      <4>1. Nearest(b, Says(field)) = b
        BY <3>1, NearestStep DEF Says
      <4> QED  BY <2>4, <3>1, <4>1 DEF Inherit
    <3>2. CASE declared[b][field] = UNSET
      <4>1. Nearest(b, Says(field)) = Nearest(p, Says(field))
        BY <2>1, <3>2, NearestStep DEF Says
      <4>2. CASE p = Http
        BY <2>3, <2>4, <3>2, <4>1, <4>2, NearestHttp DEF Inherit
      <4>3. CASE p # Http
        BY <2>2, <2>4, <3>2, <4>1, <4>3 DEF Inherit, HasNearest
      <4> QED  BY <4>2, <4>3
    <3> QED  BY <3>1, <3>2
  <2>6. loc[b].level = IF declared[Nearest(b, LevelSet)].level = LEVEL_UNSET
                       THEN DefaultLevel
                       ELSE declared[Nearest(b, LevelSet)].level
    <3>1. CASE declared[b].level # LEVEL_UNSET
      <4>1. Nearest(b, LevelSet) = b
        BY <3>1, NearestStep DEF LevelSet
      <4> QED  BY <2>4, <3>1, <4>1 DEF InheritLevel
    <3>2. CASE declared[b].level = LEVEL_UNSET
      <4>1. Nearest(b, LevelSet) = Nearest(p, LevelSet)
        BY <2>1, <3>2, NearestStep DEF LevelSet
      <4>2. CASE p = Http
        BY <2>3, <2>4, <3>2, <4>1, <4>2, NearestHttp DEF InheritLevel
      <4>3. CASE p # Http
        BY <2>2, <2>4, <3>2, <4>1, <4>3
        DEF InheritLevel, HasNearest, LEVEL_UNSET, DefaultLevel
      <4> QED  BY <4>2, <4>3
    <3> QED  BY <3>1, <3>2
  <2>7. loc[b].dicts.list =
          IF Nearest(b, ListSet) = Http THEN declared[Http].dicts.list
          ELSE DczDictSort(declared[Nearest(b, ListSet)].dicts.list)
    <3>1. CASE declared[b].dicts.set
      <4>1. Nearest(b, ListSet) = b
        BY <3>1, NearestStep DEF ListSet
      <4>2. loc[b].dicts = [declared[b].dicts EXCEPT
                              !.list = DczDictSort(declared[b].dicts.list)]
        BY <2>4, <3>1 DEF MergeDicts
      <4>3. declared[b].dicts \in [set : BOOLEAN, list : Seq(DictEntries)]
        BY DEF ConfigInv, TypeInv, DeclaredConfs
      <4>4. loc[b].dicts.list = DczDictSort(declared[b].dicts.list)
        BY <4>2, <4>3
      <4> QED  BY <4>1, <4>4
    <3>2. CASE ~ declared[b].dicts.set
      <4>1. Nearest(b, ListSet) = Nearest(p, ListSet)
        BY <2>1, <3>2, NearestStep DEF ListSet
      <4>2. loc[b].dicts = loc[p].dicts
        BY <2>4, <3>2 DEF MergeDicts
      <4>3. CASE p = Http
        BY <2>3, <4>1, <4>2, <4>3, NearestHttp
      <4>4. CASE p # Http
        BY <2>2, <4>1, <4>2, <4>4 DEF HasNearest
      <4> QED  BY <4>3, <4>4
    <3> QED  BY <3>1, <3>2
  <2> QED  BY <2>5, <2>6, <2>7 DEF HasNearest
<1>4. Blocks \subseteq S
  <2> HIDE DEF S
  <2> QED  BY <1>2, <1>3, OutwardInduction
<1> QED  BY <1>1, <1>4

\* A list in force has the entries of the list it comes from and no others,
\* and no hash twice.
LEMMA ListInForce ==
  ASSUME ConfigInv, NEW b \in merged,
         NEW from, from = Nearest(b, ListSet),
         NEW list, list = declared[from].dicts.list,
         NEW used, used = loc[b].dicts.list
  PROVE  /\ used \in Seq(DictEntries) /\ Len(used) = Len(list)
         /\ ToSet(used) = ToSet(list)
         /\ \A e, f \in ToSet(used) : e.hash = f.hash => e = f
         /\ from # Http =>
              \A j, k \in 1 .. Len(used) : j < k => used[j].hash < used[k].hash
<1>1. b \in Blocks
  BY DEF ConfigInv, TypeInv
<1>2. from \in Blocks
  BY <1>1, NearestIsABlock
<1>3. list \in Seq(DictEntries)
  BY <1>2 DEF ConfigInv, TypeInv, DeclaredConfs
<1>4. Distinct(list)
  BY <1>2 DEF ConfigInv, ListInv, Distinct
<1>5. used = IF from = Http THEN list ELSE DczDictSort(list)
  BY AllHaveNearest DEF HasNearest
<1>6. \A e, f \in ToSet(list) : e.hash = f.hash => e = f
  BY <1>3, <1>4, EntriesOfList
<1>7. CASE from = Http
  BY <1>3, <1>5, <1>6, <1>7
<1>8. CASE from # Http
  <2>1. used = DczDictSort(list)
    BY <1>5, <1>8
  <2>2. /\ used \in Seq(DictEntries) /\ Len(used) = Len(list)
        /\ ToSet(used) = ToSet(list)
        /\ \A j, k \in 1 .. Len(used) : j < k => used[j].hash < used[k].hash
    BY <1>3, <1>4, <2>1, SortFacts
  <2> QED  BY <1>6, <2>2
<1> QED  BY <1>7, <1>8

\* zstd, zstd_static, zstd_comp_level, zstd_window_log,
\* zstd_target_cblock_size and the list of dictionaries of a location are what
\* the nearest block around it says, for every tree of blocks: the two
\* merge_loc_conf() only look at the parent (filter_module.c:5138-5190,
\* static_module.c:1965-1972).
THEOREM NearestSettings == Spec => []MergedIsNearest
<1>1. ConfigInv => MergedIsNearest
  <2> SUFFICES ASSUME ConfigInv, NEW b \in merged
               PROVE  /\ HasNearest(b)
                      /\ LET dicts == declared[Nearest(b, ListSet)].dicts
                         IN /\ Entries(b) = ToSet(dicts.list)
                            /\ Len(loc[b].dicts.list) = Len(dicts.list)
                            /\ \A e, f \in Entries(b) : e.hash = f.hash => e = f
    BY DEF MergedIsNearest, HasNearest, Locations
  <2>1. HasNearest(b)
    BY AllHaveNearest
  <2> QED  BY <2>1, ListInForce DEF Entries
<1> QED  BY <1>1, ConfigInvariant, PTL

\* Below the threshold the list is scanned from its front.
LEMMA ScanFinds ==
  ASSUME NEW list \in Seq(DictEntries),
         \A e, f \in ToSet(list) : e.hash = f.hash => e = f,
         NEW e \in ToSet(list),
         NEW k, k = Scan(list, e.hash)
  PROVE  k # 0 /\ list[k] = e
<1> DEFINE I == {i \in 1 .. Len(list) : list[i].hash = e.hash}
<1>1. Len(list) \in Nat /\ DOMAIN list = 1 .. Len(list)
  OBVIOUS
<1>2. I # {} /\ I \subseteq Nat
  BY <1>1 DEF ToSet
<1>3. PICK m \in I : \A n \in I : m <= n
  <2> HIDE DEF I
  <2> QED  BY <1>2, LeastNat
<1>4. k = Min(I)
  <2>1. k = IF I # {} THEN Min(I) ELSE 0
    BY DEF Scan, SelectInSeq
  <2> HIDE DEF I
  <2> QED  BY <1>2, <2>1
<1>5. k \in I
  <2> HIDE DEF I
  <2> QED  BY <1>3, <1>4 DEF Min
<1>6. k \in 1 .. Len(list) /\ list[k].hash = e.hash
  BY <1>5
<1>7. list[k] \in ToSet(list)
  BY <1>1, <1>6 DEF ToSet
<1> QED  BY <1>1, <1>6, <1>7

\* A client that has a dictionary of the location's finds it, however long
\* the list is: the binary search is only run on what was sorted, and the
\* sort loses nothing (filter_module.c:2084-2181).
THEOREM ServerListsAreSearched == Spec => []ServerListFound
<1>1. ConfigInv => ServerListFound
  <2> SUFFICES ASSUME ConfigInv, NEW b \in merged,
                      Nearest(b, ListSet) \in ListSet \ {Http},
                      NEW e \in Entries(b),
                      NEW k, k = Lookup(loc[b].dicts.list, e.hash)
               PROVE  k # 0 /\ loc[b].dicts.list[k] = e
    BY DEF ServerListFound, Locations
  <2>1. PICK used : used = loc[b].dicts.list
    OBVIOUS
  <2>2. /\ used \in Seq(DictEntries)
        /\ \A x, y \in ToSet(used) : x.hash = y.hash => x = y
        /\ \A i, j \in 1 .. Len(used) : i < j => used[i].hash < used[j].hash
    BY <2>1, ListInForce
  <2>3. e \in ToSet(used)
    BY <2>1 DEF Entries
  <2>4. CASE Len(used) > Threshold
    <3>1. PICK i \in 1 .. Len(used) : used[i] = e
      BY <2>2, <2>3 DEF ToSet
    <3>2. Bisect(used, used[i].hash) = i
      BY <2>2, BisectFinds
    <3>3. k = i
      BY <2>1, <2>4, <3>1, <3>2 DEF Lookup
    <3> QED  BY <2>1, <2>2, <3>1, <3>3
  <2>5. CASE ~ (Len(used) > Threshold)
    <3>1. k = Scan(used, e.hash)
      BY <2>1, <2>5 DEF Lookup
    <3> QED  BY <2>1, <2>2, <2>3, <3>1, ScanFinds
  <2> QED  BY <2>4, <2>5
<1> QED  BY <1>1, ConfigInvariant, PTL
-----------------------------------------------------------------------------
(* How many dictionaries were hashed *)

\* The count is right as long as init_main_conf() has nothing to refuse, and
\* is shown from then on.
CountInv ==
  /\ ~ (main.trust = 1 /\ main.verified) =>
       IsFiniteSet(HashedEntries) /\ main.hashed = Cardinality(HashedEntries)
  /\ phase \in {"merge", "init", "run"} => main.shown = main.hashed

\* A step that declares no dictionary.
SameLists == \A b \in Blocks : declared'[b].dicts = declared[b].dicts
SameCount ==
  /\ main'.trust = main.trust /\ main'.verified = main.verified
  /\ main'.hashed = main.hashed /\ main'.shown = main.shown

\* The same entries count where the trust is the same.
LEMMA SameEntries ==
  ASSUME SameLists,
         \A b \in Blocks : \A k \in DOMAIN declared[b].dicts.list :
           Hashed(declared[b].dicts.list[k])' <=> Hashed(declared[b].dicts.list[k])
  PROVE  HashedEntries' = HashedEntries
<1> DEFINE Of(b) == {k \in DOMAIN declared[b].dicts.list :
                       Hashed(declared[b].dicts.list[k])}
<1>1. ASSUME NEW b \in Blocks PROVE Of(b)' = Of(b)
  BY DEF SameLists, Hashed
<1>2. HashedEntries = UNION {{b} \X Of(b) : b \in Blocks}
  BY DEF HashedEntries
<1>3. HashedEntries' = UNION {{b} \X Of(b)' : b \in Blocks}
  BY DEF HashedEntries
<1> HIDE DEF Of
<1> QED  BY <1>1, <1>2, <1>3

LEMMA CountKept ==
  ASSUME CountInv, SameLists, SameCount,
         phase' \in {"merge", "init", "run"} => phase \in {"merge", "init", "run"}
  PROVE  CountInv'
<1>1. HashedEntries' = HashedEntries
  <2>1. \A b \in Blocks : \A k \in DOMAIN declared[b].dicts.list :
          Hashed(declared[b].dicts.list[k])' <=> Hashed(declared[b].dicts.list[k])
    BY DEF SameLists, SameCount, Hashed
  <2> QED  BY <2>1, SameEntries
<1> QED  BY <1>1 DEF CountInv, SameCount
\* zstd_dict_trust_hash counts what was hashed before it only if it is then
\* refused.
LEMMA TrustCounts ==
  ASSUME ConfigInv, CountInv, NEW v \in {0, 1}, SetMain("trust", v)
  PROVE  CountInv'
<1>1. /\ main \in MainConfs /\ main.trust = UNSET
      /\ main' = [main EXCEPT !.trust = v]
      /\ phase = "parse" /\ UNCHANGED <<phase, loc, declared>>
  BY DEF SetMain, Handle, ConfigInv, TypeInv
<1>2. /\ main'.trust = v /\ main'.verified = main.verified
      /\ main'.hashed = main.hashed /\ main.trust # 1
  BY <1>1 DEF MainConfs, UNSET
<1>3. ASSUME ~ (v = 1 /\ main.verified) PROVE HashedEntries' = HashedEntries
  <2>1. \A b \in Blocks : \A k \in DOMAIN declared[b].dicts.list :
          ~ main.verified => declared[b].dicts.list[k].literal = NoLiteral
    BY <1>2 DEF ConfigInv, ListInv, Vouched
  <2>2. \A b \in Blocks : \A k \in DOMAIN declared[b].dicts.list :
          Hashed(declared[b].dicts.list[k])' <=> Hashed(declared[b].dicts.list[k])
    BY <1>1, <1>2, <1>3, <2>1 DEF Hashed
  <2>3. SameLists
    BY <1>1 DEF SameLists
  <2> QED  BY <2>2, <2>3, SameEntries
<1> QED  BY <1>1, <1>2, <1>3 DEF CountInv

\* A dictionary more, counted if it was hashed.
LEMMA DczDictFileCounts ==
  ASSUME ConfigInv, CountInv, NEW f \in DOMAIN Digest, NEW literal \in Int,
         DczDictFile(f, literal)
  PROVE  CountInv'
<1> DEFINE entry == [file |-> f, hash |-> HashOf(f, literal),
                     strict |-> main.strict = 1, literal |-> literal]
<1>1. /\ phase = "parse" /\ phase' = phase /\ main' = DczMain(literal)
      /\ declared' = [declared EXCEPT ![at] = [declared[at] EXCEPT
                   !.dicts = [set |-> TRUE,
                              list |-> Append(declared[at].dicts.list, entry)]]]
  BY DEF DczDictFile, Handle
<1>2. /\ main \in MainConfs /\ at \in Blocks /\ declared \in [Blocks -> DeclaredConfs]
  BY DEF ConfigInv, TypeInv
<1>3. PICK e : e = entry
  OBVIOUS
<1>4. e.literal = literal
  BY <1>3
<1> HIDE DEF entry
<1>5. PICK list \in Seq(DictEntries), a \in Blocks :
        list = declared[at].dicts.list /\ a = at
  BY <1>2 DEF DeclaredConfs
<1>6. /\ Len(list) \in Nat /\ DOMAIN list = 1 .. Len(list)
      /\ DOMAIN Append(list, e) = 1 .. Len(list) + 1
      /\ Append(list, e)[Len(list) + 1] = e
      /\ \A k \in 1 .. Len(list) : Append(list, e)[k] = list[k]
  OBVIOUS
<1>7. /\ \A b \in Blocks \ {a} : declared'[b] = declared[b]
      /\ declared'[a].dicts.list = Append(list, e)
  <2>1. declared[at] \in DeclaredConfs
    BY <1>2
  <2>2. PICK c : c = [declared[at] EXCEPT !.dicts = [set |-> TRUE, list |-> Append(list, e)]]
    OBVIOUS
  <2>3. c.dicts.list = Append(list, e)
    BY <2>1, <2>2 DEF DeclaredConfs
  <2>4. declared' = [declared EXCEPT ![a] = c]
    BY <1>1, <1>3, <1>5, <2>2
  <2> QED  BY <1>2, <2>3, <2>4
<1>8. /\ main'.trust = main.trust
      /\ main.verified => main'.verified
      /\ main'.hashed = IF OnTrust(literal) THEN main.hashed ELSE main.hashed + 1
  <2>1. PICK u, w, h : /\ main' = [main EXCEPT !.unchecked = u, !.verified = w, !.hashed = h]
                       /\ main.verified => w
                       /\ h = IF OnTrust(literal) THEN main.hashed ELSE main.hashed + 1
    BY <1>1 DEF DczMain
  <2> QED  BY <1>2, <2>1 DEF MainConfs
<1>9. (main'.trust # 1 \/ e.literal = NoLiteral) <=> ~ OnTrust(literal)
  BY <1>4, <1>8 DEF OnTrust
<1>10. \A b \in Blocks : \A k :
         <<b, k>> \in HashedEntries <=> /\ k \in DOMAIN declared[b].dicts.list
                                        /\ Hashed(declared[b].dicts.list[k])
  BY DEF HashedEntries
<1>11. \A b \in Blocks : \A k :
         <<b, k>> \in HashedEntries' <=> /\ k \in DOMAIN declared'[b].dicts.list
                                         /\ Hashed(declared[b].dicts.list[k])'
  BY DEF HashedEntries
<1>12. /\ \A p \in HashedEntries : \E b \in Blocks, k \in Nat : p = <<b, k>>
       /\ \A p \in HashedEntries' : \E b \in Blocks, k \in Nat : p = <<b, k>>
  <2>1. /\ \A b \in Blocks : DOMAIN declared[b].dicts.list \subseteq Nat
        /\ \A b \in Blocks : DOMAIN declared'[b].dicts.list \subseteq Nat
    <3>1. \A b \in Blocks : DOMAIN declared[b].dicts.list \subseteq Nat
      <4> TAKE b \in Blocks
      <4>1. declared[b].dicts.list \in Seq(DictEntries)
        BY <1>2 DEF DeclaredConfs
      <4> QED  BY <4>1
    <3>2. DOMAIN Append(list, e) \subseteq Nat
      BY <1>6
    <3> QED  BY <1>7, <3>1, <3>2
  <2> QED  BY <2>1 DEF HashedEntries
<1>13. HashedEntries' = IF OnTrust(literal) THEN HashedEntries
                        ELSE HashedEntries \cup {<<a, Len(list) + 1>>}
  <2> DEFINE more == IF OnTrust(literal) THEN {} ELSE {<<a, Len(list) + 1>>}
  <2>1. ASSUME NEW b \in Blocks \ {a}, NEW k \in Nat
        PROVE  <<b, k>> \in HashedEntries' <=> <<b, k>> \in HashedEntries
    BY <1>7, <1>8, <1>10, <1>11 DEF Hashed
  <2>2. ASSUME NEW k \in Nat, k # Len(list) + 1
        PROVE  <<a, k>> \in HashedEntries' <=> <<a, k>> \in HashedEntries
    <3>1. k \in DOMAIN Append(list, e) <=> k \in DOMAIN list
      BY <1>6, <2>2
    <3>2. k \in DOMAIN list => Append(list, e)[k] = list[k]
      BY <1>6
    <3>3. <<a, k>> \in HashedEntries <=>
            k \in DOMAIN list /\ (main.trust # 1 \/ list[k].literal = NoLiteral)
      BY <1>5, <1>10 DEF Hashed
    <3>4. <<a, k>> \in HashedEntries' <=>
            /\ k \in DOMAIN Append(list, e)
            /\ main'.trust # 1 \/ Append(list, e)[k].literal = NoLiteral
      BY <1>7, <1>11 DEF Hashed
    <3> QED  BY <1>8, <3>1, <3>2, <3>3, <3>4
  <2>3. <<a, Len(list) + 1>> \notin HashedEntries
    BY <1>5, <1>6, <1>10
  <2>4. <<a, Len(list) + 1>> \in HashedEntries' <=> ~ OnTrust(literal)
    BY <1>6, <1>7, <1>9, <1>11 DEF Hashed
  <2>5. ASSUME NEW b \in Blocks, NEW k \in Nat
        PROVE  <<b, k>> \in HashedEntries' <=> <<b, k>> \in HashedEntries \cup more
    BY <2>1, <2>2, <2>3, <2>4
  <2>6. \A p \in more : \E b \in Blocks, k \in Nat : p = <<b, k>>
    BY <1>6
  <2>7. HashedEntries' = HashedEntries \cup more
    <3> HIDE DEF more
    <3> QED  BY <1>12, <2>5, <2>6
  <2> QED  BY <2>7
<1>14. <<a, Len(list) + 1>> \notin HashedEntries
  BY <1>5, <1>6, <1>10
<1>15. ASSUME ~ (main'.trust = 1 /\ main'.verified)
       PROVE  IsFiniteSet(HashedEntries') /\ main'.hashed = Cardinality(HashedEntries')
  <2>1. IsFiniteSet(HashedEntries) /\ main.hashed = Cardinality(HashedEntries)
    BY <1>8, <1>15 DEF CountInv
  <2>2. CASE OnTrust(literal)
    BY <1>8, <1>13, <2>1, <2>2
  <2>3. CASE ~ OnTrust(literal)
    <3>1. HashedEntries' = HashedEntries \cup {<<a, Len(list) + 1>>}
      BY <1>13, <2>3
    <3>2. /\ IsFiniteSet(HashedEntries')
          /\ Cardinality(HashedEntries') = Cardinality(HashedEntries) + 1
      BY <1>14, <2>1, <3>1, FS_AddElement
    <3>3. main'.hashed = main.hashed + 1
      BY <1>8, <2>3
    <3> QED  BY <2>1, <3>2, <3>3
  <2> QED  BY <2>2, <2>3
<1> QED  BY <1>1, <1>15 DEF CountInv

LEMMA CountStep == ConfigInv /\ CountInv /\ [Next]_vars => CountInv'
<1> SUFFICES ASSUME ConfigInv, CountInv, [Next]_vars PROVE CountInv'
  OBVIOUS
<1>1. TypeInv /\ main \in MainConfs
  BY DEF ConfigInv, TypeInv
<1>2. ASSUME UNCHANGED <<main, declared>>,
             phase' \in {"merge", "init", "run"} => phase \in {"merge", "init", "run"}
      PROVE  CountInv'
  BY <1>2, CountKept DEF SameLists, SameCount
<1>3. ASSUME NEW b \in Blocks \ {Http}, EnterBlock(b) PROVE CountInv'
  BY <1>2, <1>3 DEF EnterBlock
<1>4. CASE LeaveBlock
  BY <1>2, <1>4 DEF LeaveBlock
<1>5. CASE Fail
  BY <1>2, <1>5 DEF Fail
<1>6. ASSUME NEW d \in rest.of,
             \/ d.name \in {"strict", "trust", "unsafe"} /\ SetMain(d.name, d.value)
             \/ d.name = "file" /\ SetDictFile
             \/ /\ d.name \in {"enable", "static", "level", "window", "cblock"}
                /\ SetLoc(d.name, d.value)
             \/ d.name = "dcz" /\ DczDictFile(d.file, d.value)
             \/ d.name = "dcz" /\ DczFails
             \/ Duplicate(d)
      PROVE  CountInv'
  <2>1. CASE d.name = "trust" /\ SetMain(d.name, d.value)
    <3>1. d.value \in {0, 1}
      BY <1>1, <2>1, DirectiveTypes
    <3> QED  BY <2>1, <3>1, TrustCounts
  <2>2. CASE d.name \in {"strict", "unsafe"} /\ SetMain(d.name, d.value)
    <3>1. /\ UNCHANGED <<phase, declared>>
          /\ main' = [main EXCEPT ![d.name] = d.value]
      BY <2>2 DEF SetMain
    <3>2. SameCount
      <4>1. CASE d.name = "strict"
        BY <1>1, <3>1, <4>1 DEF MainConfs, SameCount
      <4>2. CASE d.name = "unsafe"
        BY <1>1, <3>1, <4>2 DEF MainConfs, SameCount
      <4> QED  BY <2>2, <4>1, <4>2
    <3> QED  BY <3>1, <3>2, CountKept DEF SameLists
  <2>3. CASE SetDictFile
    <3>1. UNCHANGED <<phase, declared>> /\ main' = [main EXCEPT !.file = TRUE]
      BY <2>3 DEF SetDictFile
    <3>2. SameCount
      BY <1>1, <3>1 DEF MainConfs, SameCount
    <3> QED  BY <3>1, <3>2, CountKept DEF SameLists
  <2>4. CASE /\ d.name \in {"enable", "static", "level", "window", "cblock"}
             /\ SetLoc(d.name, d.value)
    <3>1. PICK field \in LocFields : field = d.name
      BY <2>4 DEF LocFields
    <3>2. Accepts(field, d.value)
      BY <1>1, <2>4, <3>1, DirectiveTypes DEF Accepts
    <3>3. /\ phase' = phase /\ main' = Latch(field, d.value)
          /\ declared' = [declared EXCEPT ![at] = WithField(declared[at], field, d.value)]
      BY <2>4, <3>1 DEF SetLoc, WithField
    <3>4. at \in Blocks /\ declared \in [Blocks -> DeclaredConfs]
      BY <1>1 DEF TypeInv
    <3>5. WithField(declared[at], field, d.value).dicts = declared[at].dicts
      BY <3>2, <3>4, FieldSet
    <3>6. SameLists
      BY <3>3, <3>4, <3>5 DEF SameLists
    <3>7. SameCount
      BY <1>1, <3>2, <3>3, LatchGrows DEF SameCount
    <3> QED  BY <3>3, <3>6, <3>7, CountKept
  <2>5. CASE d.name = "dcz" /\ DczDictFile(d.file, d.value)
    <3>1. d.file \in DOMAIN Digest /\ d.value \in Int
      BY <1>1, <2>5, DirectiveTypes
    <3> QED  BY <2>5, <3>1, DczDictFileCounts
  <2>6. CASE DczFails \/ Duplicate(d)
    BY <1>5, <2>6 DEF DczFails, Duplicate
  <2> QED  BY <1>6, <2>1, <2>2, <2>3, <2>4, <2>5, <2>6
<1>7. CASE Parse
  BY <1>3, <1>4, <1>6, <1>7 DEF Parse
<1>8. CASE InitMainConfFails
  BY <1>5, <1>8 DEF InitMainConfFails
<1>9. CASE InitMainConf
  <2>1. PICK s \in {0, 1}, t \in {0, 1} :
          /\ main' = [main EXCEPT !.shown = main.hashed, !.strict = s, !.trust = t]
          /\ t = 1 <=> main.trust = 1
    <3>1. PICK s, t : /\ s = IF main.strict = UNSET THEN 0 ELSE main.strict
                      /\ t = IF main.trust = UNSET THEN 0 ELSE main.trust
      OBVIOUS
    <3>2. main' = [main EXCEPT !.shown = main.hashed, !.strict = s, !.trust = t]
      BY <1>9, <3>1 DEF InitMainConf
    <3>3. s \in {0, 1} /\ t \in {0, 1} /\ (t = 1 <=> main.trust = 1)
      BY <1>1, <3>1 DEF MainConfs, UNSET
    <3> QED  BY <3>2, <3>3
  <2>2. /\ main'.shown = main'.hashed /\ main'.hashed = main.hashed
        /\ main'.verified = main.verified /\ (main'.trust = 1 <=> main.trust = 1)
    BY <1>1, <2>1 DEF MainConfs
  <2>3. SameLists
    BY <1>9 DEF InitMainConf, SameLists
  <2>4. HashedEntries' = HashedEntries
    <3>1. \A b \in Blocks : \A k \in DOMAIN declared[b].dicts.list :
            Hashed(declared[b].dicts.list[k])' <=> Hashed(declared[b].dicts.list[k])
      BY <2>2, <2>3 DEF Hashed, SameLists
    <3> QED  BY <2>3, <3>1, SameEntries
  <2> QED  BY <2>2, <2>4 DEF CountInv
<1>10. ASSUME NEW b \in Blocks \ {Http}, MergeLocConf(b) PROVE CountInv'
  BY <1>2, <1>10 DEF MergeLocConf
<1>11. ASSUME ReadDictFile, UNCHANGED declared, phase' \in {phase, "failed"}
       PROVE  CountInv'
  <2>1. PICK s : main' = [main EXCEPT !.buf = TRUE, !.bufStrict = s]
    BY <1>11 DEF ReadDictFile
  <2>2. SameCount
    BY <1>1, <2>1 DEF MainConfs, SameCount
  <2> QED  BY <1>11, <2>2, CountKept DEF SameLists
<1>12. ASSUME NEW b \in Blocks \ {Http}, MergeCreates(b) \/ MergeCreateFails(b)
       PROVE  CountInv'
  BY <1>11, <1>12 DEF MergeCreates, MergeCreateFails
<1>13. ASSUME NEW b \in Blocks \ {Http}, MergeFails(b) PROVE CountInv'
  BY <1>5, <1>13 DEF MergeFails
<1>14. CASE PostConfiguration
  BY <1>2, <1>14 DEF PostConfiguration
<1>15. CASE InitModule
  BY <1>2, <1>15 DEF InitModule
<1>16. CASE DestroyPool
  BY <1>2, <1>16 DEF DestroyPool
<1>17. CASE UNCHANGED vars
  BY <1>2, <1>17 DEF vars
<1> QED
  BY <1>7, <1>8, <1>9, <1>10, <1>12, <1>13, <1>14, <1>15, <1>16, <1>17 DEF Next

LEMMA InitCounts == Init => CountInv
<1> SUFFICES ASSUME Init PROVE CountInv
  OBVIOUS
<1>1. HashedEntries = {}
  BY DEF Init, HashedEntries, NewLoc, NoList
<1>2. IsFiniteSet({}) /\ Cardinality({}) = 0
  BY FS_EmptySet
<1> QED  BY <1>1, <1>2 DEF Init, CountInv, NewMain

(* Every hash is that of the contents, or a literal the operator wanted    *)
(* trusted; and the number shown as $zstd_dcz_dicts_hashed is that of the  *)
(* files that were hashed, wherever the switch stands in the file          *)
(* (filter_module.c:6487-6542, :6616-6662).                                *)
THEOREM HashesAreCounted == Spec => []HashIsVouchedFor
<1>1. Spec => []CountInv
  BY InitCounts, CountStep, ConfigInvariant, PTL DEF Spec
<1>2. ASSUME ConfigInv, CountInv, EntriesVouchedFor PROVE HashIsVouchedFor
  BY <1>2 DEF HashIsVouchedFor, CountInv, ConfigInv, SwitchInv
<1> QED  BY <1>1, <1>2, ConfigInvariant, HashesAreVouchedFor, PTL
=============================================================================
