------------------------------ MODULE BufferViews ------------------------------
(***************************************************************************)
(* Tile views of one root buffer, as the kernel verifier accepts them      *)
(* (ViewOp.verify_, _regions_overlap and root_region of                    *)
(* src/src/tpu_cake/dialects/tpu_schedule.py).                             *)
(*                                                                         *)
(* A view names the elements offset, offset + stride, ... of its base,     *)
(* which may be a view itself.  The verifier never lists elements: it      *)
(* composes the regions of a chain of views into one region of the root    *)
(* and decides by arithmetic whether two regions meet.  The model keeps    *)
(* that region and, beside it, the elements themselves.  It has one        *)
(* dimension: the verifier treats each dimension of a region alike and by  *)
(* itself, and a product of progressions meets another iff each one does.  *)
(***************************************************************************)
EXTENDS Integers, Sequences

CONSTANTS
  Extent,    \* the elements of the root buffer
  MaxStride, \* bound: the widest stride of a view
  MaxViews,  \* bound: the views of the kernel
  Groups,    \* alias group names
  Lifetimes  \* closed intervals of stages; the root lives through all of them

ASSUME ExtentAssumption == Extent \in Nat \ {0}
ASSUME BoundsAssumption == MaxStride \in Nat \ {0} /\ MaxViews \in Nat
ASSUME LifetimesAssumption == \A l \in Lifetimes : l \in Nat \X Nat /\ l[1] <= l[2]

VARIABLE views  \* the views declared so far, each with its base (0: the root)

Region == [offset : 0..(Extent - 1), size : 1..Extent, stride : 1..MaxStride]
Last(r) == r.offset + (r.size - 1) * r.stride

Whole == [offset |-> 0, size |-> Extent, stride |-> 1]

RegionOf(base) == IF base = 0 THEN Whole ELSE views[base].region
CellsOf(base)  == IF base = 0 THEN [i \in 1..Extent |-> i - 1] ELSE views[base].cells

-----------------------------------------------------------------------------
(* The verifier's arithmetic.                                               *)

\* Mutant: the child's offset is scaled by the stride of the composed view.
NormalizedStrideFirst(base, r) ==
  LET parent == RegionOf(base)
      stride == parent.stride * r.stride
  IN [offset |-> parent.offset + r.offset * stride, size |-> r.size, stride |-> stride]

\* root_region: one link of the chain of views.
Normalized(base, r) ==
  LET parent == RegionOf(base)
  IN [offset |-> parent.offset + r.offset * parent.stride,
      size   |-> r.size,
      stride |-> parent.stride * r.stride]

Divides(d, n) == n % d = 0
Gcd(m, n) == CHOOSE d \in 1..m : /\ Divides(d, m) /\ Divides(d, n)
                                 /\ \A e \in 1..m : Divides(e, m) /\ Divides(e, n) => e <= d
Lcm(m, n) == (m * n) \div Gcd(m, n)
\* pow(x, -1, m)
InverseModulo(x, m) == CHOOSE i \in 0..(m - 1) : (x * i) % m = 1
Ceiling(n, d) == -((-n) \div d)
Larger(m, n)  == IF m >= n THEN m ELSE n
Smaller(m, n) == IF m <= n THEN m ELSE n

\* Mutant: the first common element is not moved up to where both begin.
RegionsOverlapFromFirst(l, r) ==
  LET low     == Larger(l.offset, r.offset)
      high    == Smaller(Last(l), Last(r))
      divisor == Gcd(l.stride, r.stride)
      delta   == r.offset - l.offset
      modulus == r.stride \div divisor
      index   == ((delta \div divisor) * InverseModulo(l.stride \div divisor, modulus)) % modulus
      first   == IF modulus = 1 THEN l.offset ELSE l.offset + index * l.stride
  IN low <= high /\ Divides(divisor, delta) /\ first >= low /\ first <= high

\* progression_intersects: the first element of both progressions that is
\* not below either one's beginning, by the Chinese remainder theorem.
RegionsOverlap(l, r) ==
  LET low     == Larger(l.offset, r.offset)
      high    == Smaller(Last(l), Last(r))
      divisor == Gcd(l.stride, r.stride)
      delta   == r.offset - l.offset
      modulus == r.stride \div divisor
      index   == ((delta \div divisor) * InverseModulo(l.stride \div divisor, modulus)) % modulus
      first   == IF modulus = 1 THEN l.offset ELSE l.offset + index * l.stride
      period  == Lcm(l.stride, r.stride)
      start   == IF first < low THEN first + Ceiling(low - first, period) * period ELSE first
  IN low <= high /\ Divides(divisor, delta) /\ start <= high

LifetimesOverlap(l, m) == ~(l[2] < m[1] \/ m[2] < l[1])

-----------------------------------------------------------------------------
Init == views = <<>>

\* A ViewOp: its own verifier, then the kernel's test against the views
\* before it.
Declare(base, r, group, lifetime) ==
  LET region == Normalized(base, r)
      cells  == [i \in 1..r.size |-> CellsOf(base)[r.offset + (i - 1) * r.stride + 1]]
  IN
  /\ Last(r) < Len(CellsOf(base))
  /\ base # 0 => views[base].lifetime[1] <= lifetime[1] /\ lifetime[2] <= views[base].lifetime[2]
  /\ \A i \in DOMAIN views :
       LifetimesOverlap(lifetime, views[i].lifetime) /\ RegionsOverlap(region, views[i].region)
         => views[i].group = group
  /\ views' = Append(views, [base |-> base, region |-> region, group |-> group,
                             lifetime |-> lifetime, cells |-> cells])

Next ==
  /\ Len(views) < MaxViews
  /\ \E base \in 0..Len(views), r \in Region, group \in Groups, lifetime \in Lifetimes :
       Declare(base, r, group, lifetime)

Spec == Init /\ [][Next]_views

-----------------------------------------------------------------------------
(* Properties.                                                              *)

\* The region a view is reduced to stays inside the root buffer.
TypeOK ==
  \A i \in DOMAIN views :
    /\ views[i].base \in 0..(i - 1)
    /\ views[i].group \in Groups
    /\ views[i].lifetime \in Lifetimes
    /\ views[i].region.offset \in Nat /\ Last(views[i].region) < Extent
    /\ views[i].cells \in Seq(0..(Extent - 1))

\* The region a chain of views is reduced to names, in order, the very
\* elements that indexing through the chain reaches.
RegionIsExact ==
  \A i \in DOMAIN views :
    LET r == views[i].region IN
    views[i].cells = [k \in 1..r.size |-> r.offset + (k - 1) * r.stride]

Elements(v) == {v.cells[k] : k \in DOMAIN v.cells}

\* Two views that share an element at a stage where both live are declared
\* in one alias group: code that trusts the groups never misses an alias.
AliasesAreDeclared ==
  \A i, j \in DOMAIN views :
    LifetimesOverlap(views[i].lifetime, views[j].lifetime)
      /\ Elements(views[i]) \cap Elements(views[j]) # {}
        => views[i].group = views[j].group

\* The overlap test is exact: regions it separates share no element and
\* regions it joins share one, so that disjoint transfers are not refused.
OverlapIsExact ==
  \A i, j \in DOMAIN views :
    RegionsOverlap(views[i].region, views[j].region)
      <=> Elements(views[i]) \cap Elements(views[j]) # {}

=============================================================================
