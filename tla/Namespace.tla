------------------------------- MODULE Namespace -------------------------------
(***************************************************************************)
(* The namespace: a table of prefixes, each with the text that replaces it *)
(* and a device.  A name is mapped by the first entry whose prefix it has, *)
(* again and again while the device is the namespace itself.  A name is a  *)
(* sequence of characters; lengths count the null character, as namlen.    *)
(***************************************************************************)
EXTENDS Integers, Sequences
LOCAL INSTANCE SequencesExt

CONSTANTS NM_PRELEN, NM_REPLLEN, NM_MAXLEN, NNAMES,
          CharSigned,          \* a char counts up to CharSigned - 1 and wraps below zero
          NAMESPACE, DevNames, \* the names of the devices 1, 2, ..., one of them the namespace
          DevPrefix,           \* "/dev/"
          Names, Mounts,       \* the names mapped, the mounts made after the first ones
          Leftovers            \* what the buffer may hold after a name put there without its end

ASSUME NameAssump ==
  /\ NAMESPACE \in DOMAIN DevNames /\ {NM_PRELEN, NM_REPLLEN, NM_MAXLEN, NNAMES, CharSigned} \subseteq Nat \ {0}

VARIABLES nametab, \* the entries [prefix, replace, device] in their order
          mapped   \* what each name was mapped to when it was first used
nvars == <<nametab, mapped>>

Refused == [device |-> 0, name |-> <<>>]
NotYet == [device |-> -1, name |-> <<>>]
Entry(prefix, replace, device) == [prefix |-> prefix, replace |-> replace, device |-> device]
IsBadDev(device) == device \notin DOMAIN DevNames
Fits(name, max) == Len(name) + 1 <= max
CharOf(n) == ((n + CharSigned) % (2 * CharSigned)) - CharSigned

\* A mount that is refused leaves the table as it is.
Mounted(tab, m) ==
  IF Fits(m.prefix, NM_PRELEN) /\ Fits(m.replace, NM_REPLLEN) /\ ~IsBadDev(m.device) /\ Len(tab) < NNAMES
  THEN Append(tab, m) ELSE tab

\* namrepl: what the first matching entry may make of a name.
Matching(tab, name) == {i \in DOMAIN tab : IsPrefix(tab[i].prefix, name)}
FirstMatch(tab, name) == CHOOSE i \in Matching(tab, name) : \A j \in Matching(tab, name) : i <= j
Namrepl(tab, name) ==
  IF Matching(tab, name) = {} THEN {Refused}
  ELSE LET e == tab[FirstMatch(tab, name)]
           remain == CharOf(Len(name) + 1) - Len(e.prefix)
       IN IF Len(e.replace) + remain > NM_MAXLEN THEN {Refused}
          ELSE {[device |-> e.device, name |-> e.replace \o rest] :
                 rest \in IF remain > 0 THEN {SubSeq(name, Len(e.prefix) + 1, Len(name))} ELSE Leftovers}

\* nammap: one more substitution for the outcomes that are still in the namespace.
Again(tab, outcomes) ==
  UNION {IF o.device = NAMESPACE THEN Namrepl(tab, o.name) ELSE {o} : o \in outcomes}
Nammap(tab, name) ==
  IF ~Fits(name, NM_MAXLEN) THEN {Refused}
  ELSE LET last == FoldLeft(LAMBDA outcomes, i : Again(tab, outcomes),
                            {[device |-> NAMESPACE, name |-> name]}, tab)
       IN {IF o.device = NAMESPACE THEN Refused ELSE o : o \in last}

-----------------------------------------------------------------------------
\* naminit: every device under its name in lower case, then the general prefixes.
GeneralFirst(general) == general \o [d \in DOMAIN DevNames |-> Entry(DevPrefix \o DevNames[d], <<>>, d)]
BootMounts(general) == [d \in DOMAIN DevNames |-> Entry(DevPrefix \o DevNames[d], <<>>, d)] \o general

CONSTANT General   \* the general prefixes of naminit
NameInit == nametab = <<>> /\ mapped = [n \in Names |-> NotYet]
Naminit ==
  /\ nametab = <<>> /\ nametab' = FoldLeft(Mounted, <<>>, BootMounts(General)) /\ UNCHANGED mapped
Mount(m) ==
  /\ nametab # <<>> /\ nametab' = Mounted(nametab, m) /\ UNCHANGED mapped
\* namopen gives the name to the device it is mapped to.
Namopen(n) ==
  /\ nametab # <<>> /\ mapped[n] = NotYet
  /\ \E o \in Nammap(nametab, n) : mapped' = [mapped EXCEPT ![n] = o]
  /\ UNCHANGED nametab
NameNext == Naminit \/ (\E m \in Mounts : Mount(m)) \/ (\E n \in Names : Namopen(n))

-----------------------------------------------------------------------------
(* Properties *)

NameTypeOK ==
  /\ Len(nametab) <= NNAMES
  /\ \A n \in Names : mapped[n] \in {NotYet, Refused} \/ mapped[n].device \in DOMAIN DevNames \ {NAMESPACE}

\* Opened names keep their meaning: a mount made later never changes where a name that was
\* mapped goes (mount appends, namrepl takes the first match).
MappingKept ==
  \A n \in Names : mapped[n] \notin {NotYet, Refused} => mapped[n] \in Nammap(nametab, n)

\* Every device answers to its own name, with nothing left of the name, unless an earlier
\* device's name is the beginning of it (naminit's order).
DevicesNamed ==
  nametab # <<>> =>
    \A d \in DOMAIN DevNames \ {NAMESPACE} :
      (\A c \in 1..(d - 1) : ~IsPrefix(DevNames[c], DevNames[d])) /\ Fits(DevPrefix \o DevNames[d], NM_PRELEN)
        => Nammap(nametab, DevPrefix \o DevNames[d]) = {[device |-> d, name |-> <<>>]}

\* What nammap hands to a device fits, with its null character, the buffer that namopen gave it
\* (the length test of namrepl, where olen has not wrapped).
NameFits ==
  \A n \in Names : Fits(n, CharSigned - 1) => Fits(mapped[n].name, NM_MAXLEN)

\* The namespace that mount builds and nammap searches.
NamesMapped == NameTypeOK /\ MappingKept /\ DevicesNamed /\ NameFits
=============================================================================
