----------------------------- MODULE ManifestRules -----------------------------
(***************************************************************************)
(* What a manifest accepts (manifest.py), as pure functions. The text of a *)
(* value, '0.8[um]', stands for its magnitude and the unit in its brackets.*)
(* A manifest is a record of its parameters, a function from their names,  *)
(* and its sweep_parameter.                                                *)
(***************************************************************************)
EXTENDS Integers, Sequences

CONSTANTS Texts,         \* the texts of single values
          Lists,         \* the lists of them that are sent
          Magnitude,     \* text -> the number in it
          Unit,          \* text -> the unit in it
          Elements,      \* list -> the texts in it
          Units,         \* units that occur
          Bare,          \* the unit of a text without brackets
          Junk,          \* the unit of a text that _VALUE_RE does not match
          Dimensionless, \* _DIMENSIONLESS_UNITS
          Scale          \* how much a unit is, in the smallest of its dimension

ASSUME TextAssumption ==
    /\ Magnitude \in [Texts -> Int]
    /\ Unit \in [Texts -> Units \cup {Bare, Junk}]
    /\ Elements \in [Lists -> Seq(Texts)]
    /\ Texts \cap Lists = {}
    /\ Dimensionless \subseteq Units
    /\ Bare \notin Units /\ Junk \notin Units /\ Bare # Junk
    /\ Scale \in [Units -> Nat]

ParameterSpec == [unit : Units, min : Int, max : Int, geometry : BOOLEAN]

IsList(raw) == raw \in Lists

Parses(text) == Unit[text] # Junk

\* Bug: a bare number is taken to be in the manifest's unit.
BugValidValue(spec, text) ==
    /\ Parses(text)
    /\ Unit[text] # Bare => Unit[text] = spec.unit
    /\ spec.min <= Magnitude[text] /\ Magnitude[text] <= spec.max

\* _validate_one_value.
ValidValue(spec, text) ==
    /\ Parses(text)
    /\ Unit[text] = Bare => spec.unit \in Dimensionless
    /\ Unit[text] # Bare => Unit[text] = spec.unit
    /\ spec.min <= Magnitude[text] /\ Magnitude[text] <= spec.max

ValidList(spec, list) ==
    /\ Elements[list] # <<>>
    /\ \A i \in 1 .. Len(Elements[list]) : ValidValue(spec, Elements[list][i])

\* validate_params.
ValidParams(m, params) == \A name \in DOMAIN params :
    /\ name \in DOMAIN m.parameters
    /\ \/ /\ IsList(params[name]) /\ name = m.sweep_parameter
          /\ ValidList(m.parameters[name], params[name])
       \/ ~IsList(params[name]) /\ ValidValue(m.parameters[name], params[name])

\* What COMSOL takes a text to mean, for a parameter whose default unit is given.
Quantity(text, default) ==
    Magnitude[text] * (IF Unit[text] = Bare THEN Scale[default] ELSE Scale[Unit[text]])

\* The quantity is one that the manifest allows.
WithinSpec(spec, text, default) ==
    /\ Parses(text)
    /\ spec.min * Scale[spec.unit] <= Quantity(text, default)
    /\ Quantity(text, default) <= spec.max * Scale[spec.unit]

=============================================================================
