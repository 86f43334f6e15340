------------------------------ MODULE LuaRequire ------------------------------
(***************************************************************************)
(* require and module (loadlib.c): the entries of package.loaded, with the *)
(* sentinel of a module that is being loaded, while loaders and modules    *)
(* run, which are programs of their own: they require other modules, call  *)
(* each other protected or not, and fail.                                  *)
(***************************************************************************)
EXTENDS Integers, Sequences, FiniteSets

CONSTANTS
  Modules,
  MaxLoading  \* bound: loaders and modules that wait for each other

ASSUME LuaRequireAssumption == MaxLoading \in Nat

VARIABLES
  loaded,   \* package.loaded: "nil", "false", "sentinel" or a "value"
  loading,  \* what runs, innermost first: [kind, name, protected], a "loader" or a "module"
  failed    \* the modules whose function raised an error

requireVars == <<loaded, loading, failed>>

RequireInit == loaded = [m \in Modules |-> "nil"] /\ loading = <<>> /\ failed = {}

Top  == Head(loading)
Rest == Tail(loading)

\* An error in what runs, which ends all up to what was called protected, or to the host.
Raise ==
  \E last \in DOMAIN loading :
    /\ \A k \in 1 .. last - 1 : ~loading[k].protected
    /\ loading[last].protected \/ last = Len(loading)
    /\ loading' = SubSeq(loading, last + 1, Len(loading))
    /\ failed' = failed \cup {loading[k].name : k \in {n \in 1 .. last : loading[n].kind = "module"}}
    /\ UNCHANGED loaded

\* ll_require, by the host or by what runs: nothing happens if the entry is true; else the
\* loaders are called until one has found the module.  An error is that of the caller, and
\* nothing either if the call is protected, or made by the host.
Require(m, protected) ==
  \/ /\ loaded[m] \in {"nil", "false"} /\ Len(loading) < MaxLoading
     /\ loading' = <<[kind |-> "loader", name |-> m, protected |-> protected]>> \o loading
     /\ UNCHANGED <<loaded, failed>>
  \/ loaded[m] = "sentinel" /\ ~protected /\ Raise

\* Mutant: the sentinel is not set.
MarkedNone(m) == loaded
Marked(m) == [loaded EXCEPT ![m] = "sentinel"]
\* A loader has found the module: its function is called, as protected as the loader was.
LoaderFinds ==
  /\ loading # <<>> /\ Top.kind = "loader"
  /\ loaded' = Marked(Top.name)
  /\ loading' = <<[Top EXCEPT !.kind = "module"]>> \o Rest
  /\ UNCHANGED failed
\* The function returns; a module that left no value is true.
ModuleReturns(result) ==
  /\ loading # <<>> /\ Top.kind = "module"
  /\ LET entry == IF result = "nil" THEN loaded[Top.name] ELSE result IN
     loaded' = [loaded EXCEPT ![Top.name] = IF entry = "sentinel" THEN "value" ELSE entry]
  /\ loading' = Rest
  /\ UNCHANGED failed
\* ll_module, or a module that assigns its entry; in any module, of any name.
Module(m) ==
  /\ loading # <<>> /\ loaded' = [loaded EXCEPT ![m] = "value"]
  /\ UNCHANGED <<loading, failed>>
\* An error of a module; of a loader; or because none has found it.
LoadingFails == loading # <<>> /\ Raise

RequireNext ==
  \/ \E m \in Modules : Module(m) \/ \E protected \in BOOLEAN : Require(m, protected)
  \/ LoaderFinds \/ \E result \in {"nil", "false", "value"} : ModuleReturns(result)
  \/ LoadingFails
RequireSpec == RequireInit /\ [][RequireNext]_requireVars

-----------------------------------------------------------------------------
(* Properties.                                                              *)

\* No module is begun while it runs, however modules and loaders require each other: the
\* inner require raises an error, or returns what the module has made of itself so far.
\* And the sentinel blocks nothing else: an entry has it only while the module runs, or
\* after it failed ("loop or previous error").
LoadedOnce ==
  \A m \in Modules :
    LET running == {k \in DOMAIN loading : loading[k].kind = "module" /\ loading[k].name = m} IN
    /\ Cardinality(running) <= 1
    /\ loaded[m] = "sentinel" => running # {} \/ m \in failed
=============================================================================
