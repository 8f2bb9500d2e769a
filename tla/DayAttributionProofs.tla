------------------------ MODULE DayAttributionProofs ------------------------
(***************************************************************************)
(* The properties of DayAttribution for every set of schedules, every      *)
(* punch window and any number of dates and changes; before them, the      *)
(* facts they need about the attribution of punches to days (WorkDays),    *)
(* for every length of a day and every set of templates.                   *)
(*                                                                         *)
(* The inductive invariant says that the rows of the schedule history      *)
(* follow one another without a gap (History), that the record of a day    *)
(* whose surroundings have not changed is the one the current calendar     *)
(* gives (Fresh), and that within the limit no day itself changed without  *)
(* being recomputed (DayReached).                                          *)
(***************************************************************************)
EXTENDS DayAttribution, TLAPS

-----------------------------------------------------------------------------
(* Dates and instants.                                                     *)

LEMMA MidnightStep ==
  ASSUME NEW d \in Int
  PROVE  Midnight(d) \in Int /\ Midnight(d + 1) = Midnight(d) + DayLength
BY DayLengthAssumption DEF Midnight

LEMMA MidnightOrder ==
  ASSUME NEW d \in Int, NEW e \in Int, d < e
  PROVE  Midnight(d) + DayLength <= Midnight(e)
<1>1. (e - d - 1) \in Nat
  OBVIOUS
<1>2. (e - d - 1) * DayLength >= 0
  BY <1>1, DayLengthAssumption
<1>3. (e - d - 1) * DayLength = e * DayLength - d * DayLength - DayLength
  BY DayLengthAssumption
<1> QED BY <1>2, <1>3, DayLengthAssumption DEF Midnight

LEMMA LocalDateType ==
  ASSUME NEW t \in Int
  PROVE  /\ LocalDate(t) \in Int
         /\ Midnight(LocalDate(t)) <= t
         /\ t < Midnight(LocalDate(t)) + DayLength
BY DayLengthAssumption DEF LocalDate, Midnight

LEMMA LocalDateOrder ==
  ASSUME NEW t \in Int, NEW u \in Int, t <= u
  PROVE  LocalDate(t) <= LocalDate(u)
<1>1. SUFFICES ASSUME LocalDate(u) < LocalDate(t) PROVE FALSE
  BY LocalDateType
<1>2. Midnight(LocalDate(u)) + DayLength <= Midnight(LocalDate(t))
  BY <1>1, LocalDateType, MidnightOrder
<1> QED BY <1>2, LocalDateType, MidnightStep

LEMMA LocalDateBetween ==
  ASSUME NEW t \in Int, NEW a \in Int, NEW b \in Int, Midnight(a) <= t, t < Midnight(b)
  PROVE  a <= LocalDate(t) /\ LocalDate(t) < b
<1> DEFINE l == LocalDate(t)
<1>1. /\ l \in Int /\ Midnight(l) \in Int /\ Midnight(a) \in Int /\ Midnight(b) \in Int
      /\ Midnight(l) <= t /\ t < Midnight(l) + DayLength
  BY LocalDateType, MidnightStep
<1> HIDE DEF l
<1>2. ASSUME l < a PROVE FALSE
  BY <1>1, <1>2, MidnightOrder, DayLengthAssumption
<1>3. ASSUME b <= l PROVE FALSE
  <2>1. b = l \/ b < l
    BY <1>1, <1>3
  <2> QED BY <1>1, <2>1, MidnightOrder, DayLengthAssumption
<1> QED BY <1>1, <1>2, <1>3 DEF l

-----------------------------------------------------------------------------
(* Shifts and their windows.                                               *)

LEMMA ShiftHours ==
  ASSUME NEW cal, NEW d \in Int, cal[d] \in Context, HasShift(cal, d)
  PROVE  /\ StartOf(cal, d) \in Int /\ EndOf(cal, d) \in Int
         /\ Midnight(d) <= StartOf(cal, d)
         /\ StartOf(cal, d) < Midnight(d) + DayLength
         /\ StartOf(cal, d) < EndOf(cal, d)
<1>1. /\ cal[d].template \in Templates
      /\ cal[d].template.start \in 0..(DayLength - 1)
      /\ cal[d].template.end \in 0..(DayLength - 1)
  BY DayLengthAssumption, TemplateAssumption DEF Context, HasShift
<1> QED BY <1>1, MidnightStep, DayLengthAssumption, TemplateAssumption DEF StartOf, EndOf

\* The window holds the shift; it is the date of a shift without fixed hours.
LEMMA ShiftWindow ==
  ASSUME NEW cal, NEW d \in Int, cal[d] \in Context, HasShift(cal, d)
  PROVE  /\ From(cal, d) \in Int /\ To(cal, d) \in Int
         /\ From(cal, d) <= StartOf(cal, d)
         /\ EndOf(cal, d) <= To(cal, d)
         /\ \/ /\ From(cal, d) = StartOf(cal, d) - Before
               /\ To(cal, d) = EndOf(cal, d) + After
            \/ /\ From(cal, d) = Midnight(d)
               /\ To(cal, d) = Midnight(d) + DayLength
<1>1. /\ cal[d].template \in Templates
      /\ cal[d].template.start \in 0..(DayLength - 1)
      /\ cal[d].template.end \in 0..(DayLength - 1)
      /\ cal[d].template.flexible => cal[d].template.start < cal[d].template.end
      /\ cal[d].template # NoShift
  BY TemplateAssumption, NoShiftAssumption DEF Context, HasShift
<1>2. CASE cal[d].template.flexible
  <2>1. ~FixedHours(cal, d)
    BY <1>2 DEF FixedHours
  <2>2. EndOf(cal, d) = Midnight(d) + cal[d].template.end
    BY <1>1, <1>2, MidnightStep DEF EndOf
  <2> QED BY <1>1, <2>1, <2>2, MidnightStep, ShiftHours, DayLengthAssumption, PolicyAssumption DEF From, To
<1>3. CASE ~cal[d].template.flexible
  <2>1. FixedHours(cal, d)
    BY <1>1, <1>3 DEF FixedHours
  <2> QED BY <2>1, ShiftHours, DayLengthAssumption, PolicyAssumption DEF From, To
<1> QED BY <1>2, <1>3

LEMMA DistanceIs ==
  ASSUME NEW cal, NEW d \in Int, cal[d] \in Context, HasShift(cal, d), NEW t \in Int
  PROVE  /\ Distance(cal, d, t) \in Nat
         /\ t < StartOf(cal, d) => Distance(cal, d, t) = StartOf(cal, d) - t
         /\ t > EndOf(cal, d) => Distance(cal, d, t) = t - EndOf(cal, d)
         /\ StartOf(cal, d) <= t /\ t <= EndOf(cal, d) => Distance(cal, d, t) = 0
BY ShiftHours DEF Distance

\* The distance to a shift grows by no more than the time that passes.
LEMMA DistanceGrows ==
  ASSUME NEW cal, NEW d \in Int, cal[d] \in Context, HasShift(cal, d),
         NEW t \in Int, NEW u \in Int, t <= u
  PROVE  Distance(cal, d, u) <= Distance(cal, d, t) + (u - t)
BY ShiftHours DEF Distance

-----------------------------------------------------------------------------
(* The owner of a punch.                                                   *)

LEMMA AroundType ==
  ASSUME NEW t \in Int
  PROVE  Around(t) \subseteq Int
BY LocalDateType DEF Around

\* Of three dates with a distance each, one is the nearest, the earliest on a tie.
LEMMA LeastOfThree ==
  ASSUME NEW l \in Int, NEW C, C \subseteq {l - 1, l, l + 1}, C # {}, NEW f \in [C -> Nat]
  PROVE  \E d \in C : \A e \in C : f[d] < f[e] \/ (f[d] = f[e] /\ d <= e)
<1> DEFINE Best(d) == \A e \in C : f[d] < f[e] \/ (f[d] = f[e] /\ d <= e)
<1>1. SUFFICES ASSUME \A d \in C : \E e \in C : f[e] < f[d] \/ (f[e] = f[d] /\ e < d)
               PROVE  FALSE
  <2> SUFFICES ASSUME NEW d \in C, ~Best(d)
               PROVE  \E e \in C : f[e] < f[d] \/ (f[e] = f[d] /\ e < d)
    OBVIOUS
  <2>1. PICK e \in C : ~(f[d] < f[e] \/ (f[d] = f[e] /\ d <= e))
    OBVIOUS
  <2>2. f[d] \in Nat /\ f[e] \in Nat /\ d \in Int /\ e \in Int
    OBVIOUS
  <2> QED BY <2>1, <2>2
<1>2. \A d \in C : d \in Int /\ f[d] \in Nat
  OBVIOUS
<1>3. PICK a \in C : TRUE
  OBVIOUS
<1>4. PICK b \in C : f[b] < f[a] \/ (f[b] = f[a] /\ b < a)
  BY <1>1
<1>5. PICK c \in C : f[c] < f[b] \/ (f[c] = f[b] /\ c < b)
  BY <1>1
<1>6. PICK d \in C : f[d] < f[c] \/ (f[d] = f[c] /\ d < c)
  BY <1>1
<1>7. a # b /\ a # c /\ a # d /\ b # c /\ b # d /\ c # d
  BY <1>2, <1>4, <1>5, <1>6
<1> QED BY <1>7

\* Among the claimants of a punch one is nearer than all.
LEMMA NearestExists ==
  ASSUME NEW cal, NEW t \in Int, \A d \in Around(t) : cal[d] \in Context,
         Claimants(cal, t) # {}
  PROVE  \E d \in Claimants(cal, t) : \A e \in Claimants(cal, t) : Nearer(cal, t, d, e)
<1> DEFINE C == Claimants(cal, t)
           f == [d \in C |-> Distance(cal, d, t)]
<1>1. LocalDate(t) \in Int /\ C \subseteq {LocalDate(t) - 1, LocalDate(t), LocalDate(t) + 1}
  BY LocalDateType DEF Claimants, Around
<1>2. f \in [C -> Nat]
  <2> SUFFICES ASSUME NEW d \in C PROVE Distance(cal, d, t) \in Nat
    OBVIOUS
  <2>1. d \in Int /\ cal[d] \in Context /\ HasShift(cal, d)
    BY AroundType DEF Claimants, Claims
  <2> QED BY <2>1, DistanceIs
<1>3. PICK d \in C : \A e \in C : f[d] < f[e] \/ (f[d] = f[e] /\ d <= e)
  <2> HIDE DEF f, C
  <2> C # {}
    BY DEF C
  <2> QED BY <1>1, <1>2, LeastOfThree
<1>4. \A e \in C : Nearer(cal, t, d, e)
  BY <1>3 DEF Nearer
<1> QED BY <1>4

\* With nobody to claim it a punch stays on its date; otherwise it belongs to a claimant that
\* is nearer than all others.
LEMMA OwnerIs ==
  ASSUME NEW cal, NEW t \in Int, \A d \in Around(t) : cal[d] \in Context
  PROVE  /\ WorkDateOf(cal, t) \in Around(t)
         /\ Claimants(cal, t) = {} => WorkDateOf(cal, t) = LocalDate(t)
         /\ Claimants(cal, t) # {} =>
              /\ WorkDateOf(cal, t) \in Claimants(cal, t)
              /\ \A e \in Claimants(cal, t) : Nearer(cal, t, WorkDateOf(cal, t), e)
<1>1. CASE Claimants(cal, t) = {}
  BY <1>1 DEF WorkDateOf, Around
<1>2. CASE Claimants(cal, t) # {}
  <2>1. WorkDateOf(cal, t) = CHOOSE d \in Claimants(cal, t) :
                               \A e \in Claimants(cal, t) : Nearer(cal, t, d, e)
    BY <1>2 DEF WorkDateOf
  <2>2. /\ WorkDateOf(cal, t) \in Claimants(cal, t)
        /\ \A e \in Claimants(cal, t) : Nearer(cal, t, WorkDateOf(cal, t), e)
    BY <1>2, <2>1, NearestExists, Zenon
  <2> QED BY <1>2, <2>2 DEF Claimants
<1> QED BY <1>1, <1>2

-----------------------------------------------------------------------------
(* The days of two punches are in the order of the punches.                *)

\* A window is left before the next date's is over, and begins before the next date does.
LEMMA WindowReach ==
  ASSUME NEW cal, NEW d \in Int, cal[d] \in Context, HasShift(cal, d), NEW e \in Int, d < e
  PROVE  From(cal, d) < Midnight(e) /\ Midnight(d) < To(cal, d)
<1>1. Midnight(d) + DayLength <= Midnight(e) /\ Midnight(d) \in Int /\ Midnight(e) \in Int
  BY MidnightOrder, MidnightStep
<1> QED BY <1>1, ShiftHours, ShiftWindow, DayLengthAssumption, PolicyAssumption

LEMMA OwnerClaims ==
  ASSUME NEW cal, NEW t \in Int, \A d \in Around(t) : cal[d] \in Context,
         Claimants(cal, t) # {}
  PROVE  LET x == WorkDateOf(cal, t) IN
         /\ x \in Int /\ cal[x] \in Context /\ HasShift(cal, x)
         /\ From(cal, x) <= t /\ t < To(cal, x)
BY OwnerIs, AroundType DEF Claimants, Claims, InWindow

\* assignWorkDate never gives a later punch to an earlier day, whatever the shifts, as long as
\* the windows open before and close after them.
THEOREM OwnersInOrder ==
  ASSUME NEW cal, NEW t \in Int, NEW u \in Int, t <= u,
         \A d \in Around(t) \cup Around(u) : cal[d] \in Context
  PROVE  WorkDateOf(cal, t) <= WorkDateOf(cal, u)
<1> DEFINE x == WorkDateOf(cal, t)
           y == WorkDateOf(cal, u)
           lt == LocalDate(t)
           lu == LocalDate(u)
<1>1. /\ lt \in Int /\ lu \in Int /\ lt <= lu
      /\ Midnight(lt) \in Int /\ Midnight(lu) \in Int
      /\ Midnight(lt) <= t /\ t < Midnight(lt) + DayLength
      /\ Midnight(lu) <= u /\ u < Midnight(lu) + DayLength
  BY LocalDateType, LocalDateOrder, MidnightStep
<1>2. /\ x \in {lt - 1, lt, lt + 1}
      /\ y \in {lu - 1, lu, lu + 1}
  BY OwnerIs DEF Around
<1>3. SUFFICES ASSUME y < x PROVE FALSE
  BY <1>1, <1>2
<1>4. CASE Claimants(cal, t) = {} /\ Claimants(cal, u) = {}
  BY <1>1, <1>3, <1>4, OwnerIs
<1>5. CASE Claimants(cal, t) = {} /\ Claimants(cal, u) # {}
  <2>1. x = lt /\ lu = lt /\ y = lt - 1
    BY <1>1, <1>2, <1>3, <1>5, OwnerIs
  <2>2. cal[y] \in Context /\ HasShift(cal, y) /\ u < To(cal, y)
    BY <1>5, OwnerClaims
  <2>3. From(cal, y) \in Int /\ To(cal, y) \in Int /\ From(cal, y) < Midnight(lt)
    BY <1>1, <2>1, <2>2, WindowReach, ShiftWindow
  <2>4. y \in Claimants(cal, t)
    BY <1>1, <2>1, <2>2, <2>3 DEF Claimants, Claims, InWindow, Around
  <2> QED BY <1>5, <2>4
<1>6. CASE Claimants(cal, t) # {} /\ Claimants(cal, u) = {}
  <2>1. y = lu /\ lu = lt /\ x = lu + 1
    BY <1>1, <1>2, <1>3, <1>6, OwnerIs
  <2>2. cal[x] \in Context /\ HasShift(cal, x) /\ From(cal, x) <= t
    BY <1>6, OwnerClaims
  <2>3. From(cal, x) \in Int /\ To(cal, x) \in Int /\ Midnight(x) < To(cal, x)
    BY <1>1, <2>1, <2>2, WindowReach, ShiftWindow
  <2>4. x \in Claimants(cal, u)
    BY <1>1, <2>1, <2>2, <2>3, MidnightStep DEF Claimants, Claims, InWindow, Around
  <2> QED BY <1>6, <2>4
<1>7. CASE Claimants(cal, t) # {} /\ Claimants(cal, u) # {}
  <2>1. /\ x \in Int /\ cal[x] \in Context /\ HasShift(cal, x)
        /\ From(cal, x) <= t /\ t < To(cal, x)
    BY <1>7, OwnerClaims
  <2>2. /\ y \in Int /\ cal[y] \in Context /\ HasShift(cal, y)
        /\ From(cal, y) <= u /\ u < To(cal, y)
    BY <1>7, OwnerClaims
  <2>3. y \in Around(t) /\ x \in Around(u)
    BY <1>1, <1>2, <1>3 DEF Around
  <2>4. Midnight(y) + DayLength <= Midnight(x) /\ Midnight(x) \in Int /\ Midnight(y) \in Int
    BY <1>3, <2>1, <2>2, MidnightOrder, MidnightStep
  <2> DEFINE Sx == StartOf(cal, x)
             Sy == StartOf(cal, y)
             Ex == EndOf(cal, x)
             Ey == EndOf(cal, y)
             Tx == To(cal, x)
             Ty == To(cal, y)
  <2>5. /\ Sx \in Int /\ Ex \in Int /\ Midnight(x) <= Sx /\ Sx < Ex
        /\ Sx < Midnight(x) + DayLength
    BY <2>1, ShiftHours
  <2>6. /\ Sy \in Int /\ Ey \in Int /\ Midnight(y) <= Sy /\ Sy < Ey
        /\ Sy < Midnight(y) + DayLength
    BY <2>2, ShiftHours
  <2>7. /\ From(cal, x) \in Int /\ Tx \in Int /\ Ex <= Tx
        /\ \/ From(cal, x) = Sx - Before /\ Tx = Ex + After
           \/ From(cal, x) = Midnight(x) /\ Tx = Midnight(x) + DayLength
    BY <2>1, ShiftWindow
  <2>8. /\ From(cal, y) \in Int /\ Ty \in Int /\ Ey <= Ty
        /\ From(cal, y) <= Sy
        /\ \/ From(cal, y) = Sy - Before /\ Ty = Ey + After
           \/ From(cal, y) = Midnight(y) /\ Ty = Midnight(y) + DayLength
    BY <2>2, ShiftWindow
  <2>9. From(cal, y) <= t
    \* The window of y opens before that of x when both are fixed, and before x otherwise.
    <3>1. y = lt - 1 \/ y = lt
      BY <1>1, <1>2, <1>3
    <3>2. CASE y = lt - 1
      <4>1. Midnight(y) + DayLength = Midnight(lt)
        BY <1>1, <3>2, MidnightStep
      <4> QED BY <1>1, <2>6, <2>8, <4>1
    <3>3. CASE y = lt
      BY <1>1, <2>1, <2>4, <2>5, <2>6, <2>7, <2>8, <3>3, DayLengthAssumption, PolicyAssumption
    <3> QED BY <3>1, <3>2, <3>3
  <2>10. Distance(cal, x, t) < Distance(cal, y, t)
    <3>1. y \in Claimants(cal, t)
      BY <2>2, <2>3, <2>8, <2>9 DEF Claimants, Claims, InWindow
    <3>2. Nearer(cal, t, x, y)
      BY <1>7, <3>1, OwnerIs
    <3> QED BY <1>3, <2>1, <2>2, <3>2 DEF Nearer
  <2>11. /\ Distance(cal, x, t) \in Nat /\ Distance(cal, y, t) \in Nat
         /\ t < Sy => Distance(cal, y, t) = Sy - t
         /\ t < Sx => Distance(cal, x, t) = Sx - t
         /\ t > Ey => Distance(cal, y, t) = t - Ey
         /\ t > Ex => Distance(cal, x, t) = t - Ex
         /\ Sy <= t /\ t <= Ey => Distance(cal, y, t) = 0
    BY <2>1, <2>2, DistanceIs
  <2>12. t > Ey /\ Distance(cal, y, t) = t - Ey
    BY <2>4, <2>5, <2>6, <2>10, <2>11, DayLengthAssumption, PolicyAssumption
  <2>13. Distance(cal, y, u) = u - Ey
    BY <2>2, <2>6, <2>12, DistanceIs
  <2>14. CASE u < Tx
    <3>1. x \in Claimants(cal, u)
      BY <2>1, <2>3, <2>7, <2>14 DEF Claimants, Claims, InWindow
    <3>2. Nearer(cal, u, y, x)
      BY <1>7, <3>1, OwnerIs
    <3>3. Distance(cal, y, u) <= Distance(cal, x, u)
      BY <2>1, <2>2, <3>2, DistanceIs DEF Nearer
    <3>4. Distance(cal, x, u) <= Distance(cal, x, t) + (u - t) /\ Distance(cal, x, u) \in Nat
      BY <2>1, DistanceGrows, DistanceIs
    <3> QED BY <2>6, <2>10, <2>11, <2>12, <2>13, <3>3, <3>4
  <2>15. CASE u >= Tx
    <3>1. CASE From(cal, y) = Midnight(y) /\ Ty = Midnight(y) + DayLength
      BY <2>2, <2>4, <2>5, <2>7, <2>15, <3>1, DayLengthAssumption, PolicyAssumption
    <3>2. CASE Ty = Ey + After /\ Tx = Ex + After
      BY <2>2, <2>5, <2>6, <2>10, <2>11, <2>12, <2>15, <3>2, DayLengthAssumption, PolicyAssumption
    <3>3. CASE Tx = Midnight(x) + DayLength
      \* x has its whole date, and u is not after it.
      <4>1. lu <= x
        BY <1>1, <1>2, <1>3
      <4>2. Midnight(lu) <= Midnight(x)
        BY <1>1, <2>1, <2>4, <4>1, MidnightOrder, DayLengthAssumption, PolicyAssumption
      <4> QED BY <1>1, <2>4, <2>15, <3>3, <4>2, DayLengthAssumption, PolicyAssumption
    <3> QED BY <2>7, <2>8, <3>1, <3>2, <3>3
  <2> QED BY <2>7, <2>14, <2>15
<1> QED BY <1>4, <1>5, <1>6, <1>7

-----------------------------------------------------------------------------
(* What a day owns is decided by the dates around it.                      *)

\* The owner of a punch depends on the dates around it only.
LEMMA OwnerIsLocal ==
  ASSUME NEW c1, NEW c2, NEW t \in Int,
         \A d \in Around(t) : c1[d] \in Context /\ c1[d] = c2[d]
  PROVE  WorkDateOf(c1, t) = WorkDateOf(c2, t)
<1>1. /\ \A d \in Around(t) : c1[d] \in Context
      /\ \A d \in Around(t) : c2[d] \in Context
  OBVIOUS
<1>2. ASSUME NEW d \in Around(t)
      PROVE  /\ Claims(c1, d, t) <=> Claims(c2, d, t)
             /\ Distance(c1, d, t) = Distance(c2, d, t)
  <2>1. c1[d] = c2[d]
    OBVIOUS
  <2>2. StartOf(c1, d) = StartOf(c2, d) /\ EndOf(c1, d) = EndOf(c2, d)
    BY <2>1, Zenon DEF StartOf, EndOf
  <2>3. From(c1, d) = From(c2, d) /\ To(c1, d) = To(c2, d)
    BY <2>1, <2>2, Zenon DEF From, To, FixedHours
  <2> QED BY <2>1, <2>2, <2>3, Zenon DEF Claims, HasShift, InWindow, Distance
<1>3. Claimants(c1, t) = Claimants(c2, t)
  BY <1>2 DEF Claimants
<1>4. CASE Claimants(c1, t) = {}
  BY <1>1, <1>3, <1>4, OwnerIs
<1>5. CASE Claimants(c1, t) # {}
  <2> DEFINE x == WorkDateOf(c1, t)
             y == WorkDateOf(c2, t)
  <2>1. /\ x \in Claimants(c1, t) /\ y \in Claimants(c1, t)
        /\ Nearer(c1, t, x, y) /\ Nearer(c2, t, y, x)
    BY <1>1, <1>3, <1>5, OwnerIs
  <2>2. /\ x \in Around(t) /\ y \in Around(t)
        /\ HasShift(c1, x) /\ HasShift(c1, y) /\ x \in Int /\ y \in Int
    BY <2>1, AroundType DEF Claimants, Claims
  <2>3. Distance(c1, x, t) \in Nat /\ Distance(c1, y, t) \in Nat
    BY <1>1, <2>2, DistanceIs
  <2>4. Distance(c1, x, t) = Distance(c2, x, t) /\ Distance(c1, y, t) = Distance(c2, y, t)
    BY <1>2, <2>2
  <2> QED BY <2>1, <2>2, <2>3, <2>4 DEF Nearer
<1> QED BY <1>4, <1>5

\* Two calendars that agree on a date, and around the punches that could be its, give it the
\* same punches.
KnownAround(c1, c2, ts) ==
  \A t \in ts : \A e \in Around(t) : c1[e] \in Context /\ c2[e] \in Context

AgreeAround(c1, c2, d, ts) ==
  /\ c1[d] = c2[d]
  /\ \A t \in ts : d \in Around(t) => \A e \in Around(t) : c1[e] = c2[e]

LEMMA DayIsLocal ==
  ASSUME NEW c1, NEW c2, NEW d \in Int, NEW ts, ts \subseteq Int,
         KnownAround(c1, c2, ts), AgreeAround(c1, c2, d, ts)
  PROVE  /\ Counted(c1, d, ts) = Counted(c2, d, ts)
         /\ Strays(c1, d, ts) = Strays(c2, d, ts)
<1>1. From(c1, d) = From(c2, d) /\ To(c1, d) = To(c2, d)
  <2>1. StartOf(c1, d) = StartOf(c2, d) /\ EndOf(c1, d) = EndOf(c2, d)
    BY Zenon DEF StartOf, EndOf, AgreeAround
  <2> QED BY <2>1, Zenon DEF From, To, FixedHours, AgreeAround
<1>2. \A t \in ts : WorkDateOf(c1, t) = d <=> WorkDateOf(c2, t) = d
  <2> SUFFICES ASSUME NEW t \in ts PROVE WorkDateOf(c1, t) = d <=> WorkDateOf(c2, t) = d
    OBVIOUS
  <2>0. \A e \in Around(t) : c1[e] \in Context /\ c2[e] \in Context
    BY DEF KnownAround
  <2>1. WorkDateOf(c1, t) \in Around(t) /\ WorkDateOf(c2, t) \in Around(t)
    BY <2>0, OwnerIs
  <2>2. CASE d \in Around(t)
    <3>1. \A e \in Around(t) : c1[e] = c2[e]
      BY <2>2 DEF AgreeAround
    <3> QED BY <2>0, <3>1, OwnerIsLocal
  <2>3. CASE d \notin Around(t)
    BY <2>1, <2>3
  <2> QED BY <2>2, <2>3
<1>3. Own(c1, d, ts) = Own(c2, d, ts)
  BY <1>1, <1>2 DEF Own, Loaded
<1> QED BY <1>1, <1>3 DEF Counted, Strays, InWindow, AgreeAround

\* A punch that belongs to another day may come and go.
LEMMA DayIgnores ==
  ASSUME NEW cal, NEW d, NEW t, NEW ts, NEW us, WorkDateOf(cal, t) # d,
         ts \ {t} = us \ {t}
  PROVE  /\ Counted(cal, d, ts) = Counted(cal, d, us)
         /\ Strays(cal, d, ts) = Strays(cal, d, us)
<1>1. Own(cal, d, ts) = Own(cal, d, us)
  BY DEF Own
<1> QED BY <1>1 DEF Counted, Strays

-----------------------------------------------------------------------------

USE DateAssumption, ScheduleAssumption, InstantAssumption, NoneAssumption, BoundAssumption

-----------------------------------------------------------------------------
(* The inductive invariant.                                                *)

WellFormed(rs) == rs \subseteq Row /\ \A r \in rs : r.to # None => r.from <= r.to

Distinct(rs) == \A q, r \in rs : q.from = r.from => q = r

Consecutive(rs) == \A q, r \in rs : q.from < r.from => q.to # None /\ q.to < r.from

NoGap(rs) == \A r \in rs, d \in Int : r.from <= d => \E q \in rs : InForce(q, d)

History(rs) == WellFormed(rs) /\ Distinct(rs) /\ Consecutive(rs) /\ NoGap(rs)

Fresh == \A d \in Days : since[d] = {} => record[d] = RecordOf(Calendar, d, punches)

DayReached == \A d \in Past : d >= LastDate - Retroactive => d \notin since[d]

IInv == TypeOK /\ History(rows) /\ Fresh /\ DayReached

-----------------------------------------------------------------------------
(* Rows and the calendar they give.                                        *)

LEMMA RowType ==
  ASSUME NEW rs, WellFormed(rs), NEW r \in rs
  PROVE  /\ r \in Row
         /\ r.from \in Int /\ 1 <= r.from /\ r.from <= LastDate + 1
         /\ r.to = None \/ (r.to \in Int /\ r.from <= r.to /\ r.to <= LastDate + 3)
         /\ r.schedule \in Schedules
BY DEF WellFormed, Row, Days, Dates

\* No two rows are in force on one date.
LEMMA InForceUnique ==
  ASSUME NEW rs, History(rs), NEW q \in rs, NEW r \in rs, NEW d \in Int,
         InForce(q, d), InForce(r, d)
  PROVE  q = r
<1>1. /\ q.from \in Int /\ (q.to = None \/ q.to \in Int)
      /\ r.from \in Int /\ (r.to = None \/ r.to \in Int)
  BY RowType DEF History
<1>2. ~(q.from < r.from) /\ ~(r.from < q.from)
  BY <1>1 DEF History, Consecutive, InForce
<1>3. q.from = r.from
  BY <1>1, <1>2
<1> QED BY <1>3 DEF History, Distinct

LEMMA TemplateOfRow ==
  ASSUME NEW rs, History(rs), NEW q \in rs, NEW d \in Int, InForce(q, d)
  PROVE  TemplateOn(rs, d) = q.schedule[d]
<1> DEFINE p == CHOOSE r \in rs : InForce(r, d)
<1>1. p \in rs /\ InForce(p, d)
  OBVIOUS
<1>2. p = q
  BY <1>1, InForceUnique
<1> QED BY <1>2 DEF TemplateOn

\* The schedules of two histories agree on a date if the rows in force there do.
InForceAlike(rs, qs, d) ==
  /\ \A r \in rs : InForce(r, d) => \E q \in qs : InForce(q, d) /\ q.schedule = r.schedule
  /\ \A q \in qs : InForce(q, d) => \E r \in rs : InForce(r, d)

LEMMA SameTemplate ==
  ASSUME NEW rs, NEW qs, History(rs), History(qs), NEW d \in Int, InForceAlike(rs, qs, d)
  PROVE  TemplateOn(rs, d) = TemplateOn(qs, d)
<1>1. CASE \E r \in rs : InForce(r, d)
  <2>1. PICK r \in rs : InForce(r, d)
    BY <1>1
  <2>2. PICK q \in qs : InForce(q, d) /\ q.schedule = r.schedule
    BY <2>1 DEF InForceAlike
  <2> QED BY <2>1, <2>2, TemplateOfRow
<1>2. CASE ~\E r \in rs : InForce(r, d)
  BY <1>2 DEF TemplateOn, InForceAlike
<1> QED BY <1>1, <1>2

LEMMA CalendarType ==
  ASSUME NEW rs, rs \subseteq Row, NEW hs
  PROVE  CalendarOf(rs, hs) \in [Dates -> Context]
<1> SUFFICES ASSUME NEW d \in Dates PROVE TemplateOn(rs, d) \in Templates \cup {NoShift}
  BY DEF CalendarOf, Context
<1>1. CASE \E r \in rs : InForce(r, d)
  <2> DEFINE p == CHOOSE r \in rs : InForce(r, d)
  <2>1. p \in rs
    BY <1>1
  <2>2. p.schedule \in [Dates -> Templates \cup {NoShift}]
    BY <2>1 DEF Row
  <2>3. p.schedule[d] \in Templates \cup {NoShift}
    BY <2>2
  <2> QED BY <1>1, <2>3 DEF TemplateOn
<1>2. CASE ~\E r \in rs : InForce(r, d)
  BY <1>2 DEF TemplateOn
<1> QED BY <1>1, <1>2

\* load: within its margin a snapshot is the calendar.
LEMMA SnapshotIs ==
  ASSUME NEW rs, History(rs), NEW hs, NEW from \in Int, NEW to \in Int
  PROVE  /\ SnapshotOf(rs, hs, from, to) \in [Dates -> Context]
         /\ \A d \in Dates : from - 2 <= d /\ d <= to + 2 =>
              SnapshotOf(rs, hs, from, to)[d] = CalendarOf(rs, hs)[d]
<1> DEFINE qs == {r \in rs : r.from <= to + 2 /\ (r.to = None \/ r.to >= from - 2)}
           gs == hs \cap ((from - 2)..(to + 2))
<1>1. SnapshotOf(rs, hs, from, to) = CalendarOf(qs, gs)
  BY DEF SnapshotOf, Margin
<1>2. qs \subseteq rs /\ rs \subseteq Row
  BY DEF History, WellFormed
<1>3. CalendarOf(qs, gs) \in [Dates -> Context]
  BY <1>2, CalendarType
<1>4. ASSUME NEW d \in Dates, from - 2 <= d, d <= to + 2
      PROVE  CalendarOf(qs, gs)[d] = CalendarOf(rs, hs)[d]
  <2>1. d \in Int
    BY DEF Dates
  <2>2. d \in gs <=> d \in hs
    BY <1>4, <2>1
  <2>3. \A r \in rs : InForce(r, d) => r \in qs
    <3> SUFFICES ASSUME NEW r \in rs, InForce(r, d) PROVE r \in qs
      OBVIOUS
    <3>1. r.from \in Int /\ (r.to = None \/ r.to \in Int)
      BY RowType DEF History
    <3> QED BY <1>4, <2>1, <3>1 DEF InForce
  <2>4. TemplateOn(qs, d) = TemplateOn(rs, d)
    <3>1. CASE \E r \in rs : InForce(r, d)
      <4> DEFINE p == CHOOSE r \in qs : InForce(r, d)
      <4>1. p \in qs /\ InForce(p, d)
        BY <2>3, <3>1
      <4>2. TemplateOn(rs, d) = p.schedule[d]
        BY <1>2, <2>1, <4>1, TemplateOfRow
      <4>3. TemplateOn(qs, d) = p.schedule[d]
        BY <4>1 DEF TemplateOn
      <4> QED BY <4>2, <4>3
    <3>2. CASE ~\E r \in rs : InForce(r, d)
      BY <1>2, <3>2 DEF TemplateOn
    <3> QED BY <3>1, <3>2
  <2> QED BY <2>2, <2>4 DEF CalendarOf
<1> QED BY <1>1, <1>3, <1>4

-----------------------------------------------------------------------------
(* What a recomputation does to the records.                               *)

\* The dates a punch could belong to are dates of the model, none after tomorrow.
LEMMA AroundDates ==
  ASSUME NEW t \in Int, LocalDate(t) \in Past
  PROVE  \A d \in Around(t) : d \in Dates /\ d \in Int /\ d <= LastDate + 1
BY DEF Around, Past, Dates

\* The record of a day follows from the dates at most two before or after it.
LEMMA RecordIsLocal ==
  ASSUME NEW c1 \in [Dates -> Context], NEW c2 \in [Dates -> Context],
         NEW ps, ps \subseteq Instants, NEW d \in Days,
         \A e \in (d - 2)..(d + 2) : e <= LastDate + 1 => c1[e] = c2[e]
  PROVE  RecordOf(c1, d, ps) = RecordOf(c2, d, ps)
<1>1. d \in Int /\ d <= LastDate + 1 /\ ps \subseteq Int
  BY DEF Days
<1>2. c1[d] = c2[d]
  BY <1>1
<1>3. ASSUME NEW t \in ps
      PROVE  /\ \A e \in Around(t) : c1[e] \in Context /\ c2[e] \in Context
             /\ d \in Around(t) => \A e \in Around(t) : c1[e] = c2[e]
  <2>1. t \in Int /\ LocalDate(t) \in Past
    OBVIOUS
  <2>2. \A e \in Around(t) : e \in Dates /\ e \in Int /\ e <= LastDate + 1
    BY <2>1, AroundDates
  <2>3. d \in Around(t) => \A e \in Around(t) : e \in (d - 2)..(d + 2)
    BY <1>1, <2>1 DEF Around, Past
  <2> QED BY <2>2, <2>3
<1>4. Counted(c1, d, ps) = Counted(c2, d, ps) /\ Strays(c1, d, ps) = Strays(c2, d, ps)
  <2>1. KnownAround(c1, c2, ps)
    BY <1>3 DEF KnownAround
  <2>2. AgreeAround(c1, c2, d, ps)
    BY <1>2, <1>3 DEF AgreeAround
  <2>3. d \in Int /\ ps \subseteq Int
    BY <1>1
  <2> QED BY ONLY <2>1, <2>2, <2>3, DayIsLocal, ZenonT(30)
<1> QED BY <1>4 DEF RecordOf

\* A recomputation leaves every record fresh, provided its range holds the dates it covers and
\* no day it does not cover owns a punch that came or went.
LEMMA RecomputeIsFresh ==
  ASSUME TypeOK, History(rows), Fresh, History(rows'), (punches \cup punches') \subseteq Instants,
         NEW dates, NEW from \in Int, NEW to \in Int, Recompute(dates, from, to),
         \A d \in dates \cap Days : from <= d /\ (d <= to \/ to = LastDate),
         \A d \in Days \ dates :
           RecordOf(Calendar', d, punches') = RecordOf(Calendar', d, punches)
  PROVE  Fresh'
<1> DEFINE snapshot == SnapshotOf(rows', holidays', from, to)
           now == CalendarOf(rows', holidays')
           changed == {d \in Dates : now[d] # Calendar[d]}
<1>1. now = Calendar' /\ now \in [Dates -> Context] /\ Calendar \in [Dates -> Context]
  BY CalendarType DEF Calendar, History, WellFormed
<1>2. SUFFICES ASSUME NEW d \in Days, since'[d] = {}
               PROVE  record'[d] = RecordOf(now, d, punches')
  BY <1>1 DEF Fresh
<1>3. d \in Int /\ 1 <= d /\ d <= LastDate + 1
  BY DEF Days
<1>4. CASE d \in dates
  <2>1. record'[d] = RecordOf(snapshot, d, punches')
    BY <1>4 DEF Recompute
  <2>2. /\ snapshot \in [Dates -> Context]
        /\ \A e \in Dates : from - 2 <= e /\ e <= to + 2 => snapshot[e] = now[e]
    BY SnapshotIs
  <2>3. from <= d /\ (d <= to \/ to = LastDate)
    BY <1>4
  <2>4. ASSUME NEW e \in (d - 2)..(d + 2), e <= LastDate + 1
        PROVE  snapshot[e] = now[e]
    <3>1. e \in Dates /\ from - 2 <= e /\ e <= to + 2
      BY <1>3, <2>3, <2>4 DEF Dates
    <3> QED BY <2>2, <3>1
  <2>5. RecordOf(snapshot, d, punches') = RecordOf(now, d, punches')
    BY <1>1, <2>2, <2>4, RecordIsLocal
  <2> QED BY <2>1, <2>5
<1>5. CASE d \notin dates
  <2>1. /\ record'[d] = record[d]
        /\ since'[d] = since[d] \cup (changed \cap ((d - 2)..(d + 2)))
    BY <1>5 DEF Recompute
  <2>2. record[d] = RecordOf(Calendar, d, punches)
    BY <1>2, <2>1 DEF Fresh
  <2>3. ASSUME NEW e \in (d - 2)..(d + 2), e <= LastDate + 1
        PROVE  Calendar[e] = now[e]
    <3>1. e \in Dates
      BY <1>3, <2>3 DEF Dates
    <3>2. e \notin changed
      BY <1>2, <2>1
    <3> QED BY <3>1, <3>2
  <2>4. RecordOf(Calendar, d, punches) = RecordOf(now, d, punches)
    BY <1>1, <2>3, RecordIsLocal
  <2>5. RecordOf(now, d, punches') = RecordOf(now, d, punches)
    BY <1>1, <1>5
  <2> QED BY <2>1, <2>2, <2>4, <2>5
<1> QED BY <1>4, <1>5

\* A recomputation that covers the days that changed, within the limit, reaches them.
LEMMA RecomputeReaches ==
  ASSUME TypeOK, DayReached, NEW dates, NEW from, NEW to, Recompute(dates, from, to),
         \A d \in Past \ dates : d >= LastDate - Retroactive =>
           CalendarOf(rows', holidays')[d] = Calendar[d]
  PROVE  DayReached'
<1> SUFFICES ASSUME NEW d \in Past, d >= LastDate - Retroactive PROVE d \notin since'[d]
  BY DEF DayReached
<1>1. d \in Days
  BY DEF Past, Days
<1>2. CASE d \in dates
  BY <1>1, <1>2 DEF Recompute
<1>3. CASE d \notin dates
  BY <1>1, <1>3 DEF Recompute, DayReached
<1> QED BY <1>2, <1>3

LEMMA RecomputeType ==
  ASSUME TypeOK, punches' \subseteq Instants,
         NEW dates, NEW from, NEW to, Recompute(dates, from, to)
  PROVE  /\ record' \in [Days -> [counted : SUBSET Instants, strays : SUBSET Instants]]
         /\ since' \in [Days -> SUBSET Dates]
<1>1. \A cal, d : RecordOf(cal, d, punches') \in
                    [counted : SUBSET Instants, strays : SUBSET Instants]
  BY DEF RecordOf, Counted, Strays, Own
<1> QED BY <1>1 DEF Recompute, TypeOK

\* The three together, for the steps below.
LEMMA RecomputeKeeps ==
  ASSUME IInv, History(rows'), holidays' \in SUBSET Days, punches' \in SUBSET Instants,
         changes' \in 0..MaxChanges,
         NEW dates, NEW from \in Int, NEW to \in Int, Recompute(dates, from, to),
         \A d \in dates \cap Days : from <= d /\ (d <= to \/ to = LastDate),
         \A d \in Days \ dates :
           RecordOf(Calendar', d, punches') = RecordOf(Calendar', d, punches),
         \A d \in Past \ dates : d >= LastDate - Retroactive =>
           CalendarOf(rows', holidays')[d] = Calendar[d]
  PROVE  IInv'
<1>1. Fresh'
  BY RecomputeIsFresh DEF IInv, TypeOK
<1>2. DayReached'
  BY RecomputeReaches DEF IInv
<1>3. /\ record' \in [Days -> [counted : SUBSET Instants, strays : SUBSET Instants]]
      /\ since' \in [Days -> SUBSET Dates]
  BY RecomputeType DEF IInv
<1>4. rows' \in SUBSET Row /\ \A r \in rows' : r.to # None => r.from <= r.to
  BY DEF History, WellFormed
<1>5. TypeOK'
  BY <1>3, <1>4 DEF TypeOK
<1> QED BY <1>1, <1>2, <1>5 DEF IInv

-----------------------------------------------------------------------------
(* The histories that assigning and undoing an assignment leave.           *)

\* assign: the rows of before end the day before the new one starts.
LEMMA AssignHistory ==
  ASSUME NEW rs, History(rs), NEW s \in Schedules, NEW from \in Days,
         \A r \in rs : r.from < from,
         NEW qs, qs = {Closed(r, from) : r \in rs}
                        \cup {[from |-> from, to |-> None, schedule |-> s]}
  PROVE  /\ History(qs)
         /\ \A d \in Int : d < from => TemplateOn(qs, d) = TemplateOn(rs, d)
<1> DEFINE new == [from |-> from, to |-> None, schedule |-> s]
<1>1. from \in Int /\ 1 <= from /\ from <= LastDate + 1
  BY DEF Days
<1>2. ASSUME NEW r \in rs
      PROVE  /\ Closed(r, from) \in Row
             /\ Closed(r, from).from = r.from
             /\ Closed(r, from).schedule = r.schedule
             /\ Closed(r, from).to \in Int
             /\ r.from <= Closed(r, from).to /\ Closed(r, from).to < from
             /\ r.to = None \/ r.to >= from => Closed(r, from).to = from - 1
             /\ ~(r.to = None \/ r.to >= from) => Closed(r, from).to = r.to
  <2>1. /\ r \in Row /\ r.from \in Int /\ r.from < from /\ 1 <= r.from
        /\ r.to = None \/ (r.to \in Int /\ r.from <= r.to)
    BY RowType DEF History
  <2>2. CASE r.to = None \/ r.to >= from
    <3>1. Closed(r, from) = [r EXCEPT !.to = from - 1]
      BY <2>2 DEF Closed
    <3>2. from - 1 \in Dates
      BY <1>1 DEF Dates
    <3> QED BY <1>1, <2>1, <2>2, <3>1, <3>2 DEF Row
  <2>3. CASE ~(r.to = None \/ r.to >= from)
    BY <1>1, <2>1, <2>3 DEF Closed
  <2> QED BY <2>2, <2>3
<1>3. new \in Row
  BY DEF Row
<1>4. \A q \in qs : q = new \/ \E r \in rs : q = Closed(r, from)
  OBVIOUS
<1>5. WellFormed(qs)
  BY <1>2, <1>3, <1>4 DEF WellFormed
<1>6. Distinct(qs)
  <2> SUFFICES ASSUME NEW q1 \in qs, NEW q2 \in qs, q1.from = q2.from PROVE q1 = q2
    BY DEF Distinct
  <2>1. ASSUME NEW r \in rs PROVE Closed(r, from).from # from
    <3>1. r.from \in Int /\ r.from < from
      BY RowType DEF History
    <3> QED BY <1>1, <1>2, <3>1
  <2>2. CASE q1 = new \/ q2 = new
    BY <1>4, <2>1, <2>2
  <2>3. CASE ~(q1 = new \/ q2 = new)
    <3>1. PICK r1 \in rs, r2 \in rs : q1 = Closed(r1, from) /\ q2 = Closed(r2, from)
      BY <1>4, <2>3
    <3>2. r1.from = r2.from
      BY <1>2, <3>1
    <3> QED BY <3>1, <3>2 DEF History, Distinct
  <2> QED BY <2>2, <2>3
<1>7. Consecutive(qs)
  <2> SUFFICES ASSUME NEW q1 \in qs, NEW q2 \in qs, q1.from < q2.from
               PROVE  q1.to # None /\ q1.to < q2.from
    BY DEF Consecutive
  <2>1. q1 # new
    <3> SUFFICES ASSUME q1 = new PROVE FALSE
      OBVIOUS
    <3>1. CASE q2 = new
      BY <1>1, <3>1
    <3>2. CASE q2 # new
      <4>1. PICK r2 \in rs : q2 = Closed(r2, from)
        BY <1>4, <3>2
      <4>2. r2.from \in Int /\ r2.from < from
        BY RowType DEF History
      <4> QED BY <1>1, <1>2, <4>1, <4>2
    <3> QED BY <3>1, <3>2
  <2>2. PICK r1 \in rs : q1 = Closed(r1, from)
    BY <1>4, <2>1
  <2>3. CASE q2 = new
    BY <1>2, <2>2, <2>3
  <2>4. CASE q2 # new
    <3>1. PICK r2 \in rs : q2 = Closed(r2, from)
      BY <1>4, <2>4
    <3>2. r1.from < r2.from /\ q2.from = r2.from
      BY <1>2, <2>2, <3>1
    <3>3. r1.to # None /\ r1.to < r2.from /\ r1.to \in Int /\ r2.from \in Int /\ r2.from < from
      BY <3>2, RowType DEF History, Consecutive
    <3>4. q1.to = r1.to
      BY <1>1, <1>2, <2>2, <3>3
    <3> QED BY <3>2, <3>3, <3>4
  <2> QED BY <2>3, <2>4
\* Before the new row starts the same rows are in force.
<1>8. ASSUME NEW r \in rs, NEW d \in Int, d < from
      PROVE  InForce(Closed(r, from), d) <=> InForce(r, d)
  <2>1. r.from \in Int /\ (r.to = None \/ r.to \in Int)
    BY RowType DEF History
  <2> QED BY <1>1, <1>2, <1>8, <2>1 DEF InForce
<1>9. NoGap(qs)
  <2> SUFFICES ASSUME NEW q \in qs, NEW d \in Int, q.from <= d
               PROVE  \E p \in qs : InForce(p, d)
    BY DEF NoGap
  <2>1. CASE d >= from
    <3>1. InForce(new, d)
      BY <1>1, <2>1 DEF InForce
    <3> QED BY <3>1
  <2>2. CASE d < from
    <3>1. PICK r \in rs : q = Closed(r, from)
      BY <1>1, <1>4, <2>2
    <3>2. PICK p \in rs : InForce(p, d)
      BY <1>2, <3>1 DEF History, NoGap
    <3> QED BY <1>8, <2>2, <3>2
  <2> QED BY <1>1, <2>1, <2>2
<1>10. History(qs)
  BY <1>5, <1>6, <1>7, <1>9 DEF History
<1>11. ASSUME NEW d \in Int, d < from
       PROVE  TemplateOn(rs, d) = TemplateOn(qs, d)
  <2>1. ASSUME NEW r \in rs, InForce(r, d)
        PROVE  \E q \in qs : InForce(q, d) /\ q.schedule = r.schedule
    BY <1>2, <1>8, <1>11, <2>1
  <2>2. ASSUME NEW q \in qs, InForce(q, d) PROVE \E r \in rs : InForce(r, d)
    <3>1. q # new
      BY <1>1, <1>11, <2>2 DEF InForce
    <3>2. PICK r \in rs : q = Closed(r, from)
      BY <1>4, <3>1
    <3> QED BY <1>8, <1>11, <2>2, <3>2
  <2>3. InForceAlike(rs, qs, d)
    BY <2>1, <2>2 DEF InForceAlike
  <2> QED BY <1>10, <2>3, SameTemplate
<1> QED BY <1>10, <1>11

\* unassign: the row before the latest one runs open-ended again.  That row is the one in force
\* on the day before the undone one started.
LEMMA UnassignHistory ==
  ASSUME NEW rs, History(rs), NEW r \in rs, \A q \in rs : q.from <= r.from,
         NEW qs, qs = Reopened(rs \ {r})
  PROVE  /\ History(qs)
         /\ \A d \in Int : d < r.from => TemplateOn(qs, d) = TemplateOn(rs, d)
<1> DEFINE left == rs \ {r}
           Latest(p) == \A q \in left : q.from <= p.from
           Open(p) == IF Latest(p) THEN [p EXCEPT !.to = None] ELSE p
<1>1. r.from \in Int /\ \A p \in rs : p.from \in Int /\ (p.to = None \/ p.to \in Int)
  BY RowType DEF History
<1>2. ASSUME NEW p \in left PROVE p \in rs /\ p.from < r.from
  BY <1>1 DEF History, Distinct
<1>3. qs = {Open(p) : p \in left}
  BY DEF Reopened
<1>4. ASSUME NEW p \in left
      PROVE  /\ Open(p) \in Row /\ Open(p).from = p.from /\ Open(p).schedule = p.schedule
             /\ Latest(p) => Open(p).to = None
             /\ ~Latest(p) => Open(p).to = p.to
             /\ Open(p).to # None => Open(p).from <= Open(p).to
  <2>1. p \in Row /\ (p.to # None => p.from <= p.to)
    BY <1>2 DEF History, WellFormed
  <2>2. CASE Latest(p)
    BY <2>1, <2>2 DEF Row
  <2>3. CASE ~Latest(p)
    BY <2>1, <2>3
  <2> QED BY <2>2, <2>3
<1>5. \A q \in qs : \E p \in left : q = Open(p)
  BY <1>3
<1>6. \A p \in left : Open(p) \in qs
  BY <1>3
<1> HIDE DEF Open, Latest
<1>7. WellFormed(qs)
  BY <1>4, <1>5 DEF WellFormed
<1>8. Distinct(qs)
  <2> SUFFICES ASSUME NEW q1 \in qs, NEW q2 \in qs, q1.from = q2.from PROVE q1 = q2
    BY DEF Distinct
  <2>1. PICK p1 \in left, p2 \in left : q1 = Open(p1) /\ q2 = Open(p2)
    BY <1>5
  <2>2. p1 = p2
    BY <1>2, <1>4, <2>1 DEF History, Distinct
  <2> QED BY <2>1, <2>2
<1>9. Consecutive(qs)
  <2> SUFFICES ASSUME NEW q1 \in qs, NEW q2 \in qs, q1.from < q2.from
               PROVE  q1.to # None /\ q1.to < q2.from
    BY DEF Consecutive
  <2>1. PICK p1 \in left, p2 \in left : q1 = Open(p1) /\ q2 = Open(p2)
    BY <1>5
  <2>2. p1.from < p2.from
    BY <1>4, <2>1
  <2>3. ~Latest(p1)
    BY <1>1, <1>2, <2>2 DEF Latest
  <2>4. p1.to # None /\ p1.to < p2.from
    BY <1>2, <2>2 DEF History, Consecutive
  <2> QED BY <1>4, <2>1, <2>3, <2>4
\* Before the undone row started the same rows are in force.
<1>10. ASSUME NEW p \in left, NEW d \in Int, d < r.from, InForce(Open(p), d)
       PROVE  \E q \in left : InForce(q, d)
  <2>1. p \in rs /\ p.from <= d
    BY <1>2, <1>4, <1>10 DEF InForce
  <2>2. PICK q \in rs : InForce(q, d)
    BY <2>1 DEF History, NoGap
  <2>3. q # r
    BY <1>1, <1>10, <2>2 DEF InForce
  <2> QED BY <2>2, <2>3
<1>11. ASSUME NEW p \in left, NEW d \in Int, InForce(p, d)
       PROVE  InForce(Open(p), d)
  BY <1>4, <1>11 DEF InForce
<1>12. NoGap(qs)
  <2> SUFFICES ASSUME NEW q \in qs, NEW d \in Int, q.from <= d
               PROVE  \E p \in qs : InForce(p, d)
    BY DEF NoGap
  <2>1. PICK p \in left : q = Open(p)
    BY <1>5
  <2>2. p \in rs /\ p.from <= d /\ p.from < r.from /\ p.from \in Int
    BY <1>1, <1>2, <1>4, <2>1
  <2>3. CASE d < r.from
    <3>1. PICK m \in rs : InForce(m, d)
      BY <2>2 DEF History, NoGap
    <3>2. m # r
      BY <1>1, <2>3, <3>1 DEF InForce
    <3> QED BY <1>6, <1>11, <3>1, <3>2
  <2>4. CASE d >= r.from
    \* The latest of the rows that are left is the one in force just before.
    <3>1. r.from - 1 \in Int /\ p.from <= r.from - 1
      BY <1>1, <2>2
    <3>2. PICK m \in rs : InForce(m, r.from - 1)
      BY <2>2, <3>1 DEF History, NoGap
    <3>3. m \in left /\ m.from \in Int /\ (m.to = None \/ m.to \in Int)
      BY <1>1, <3>2 DEF InForce
    <3>4. Latest(m)
      <4> SUFFICES ASSUME NEW q1 \in left, m.from < q1.from PROVE FALSE
        BY <1>1, <1>2, <3>3 DEF Latest
      <4>1. m.to # None /\ m.to < q1.from
        BY <1>2, <3>3 DEF History, Consecutive
      <4>2. q1.from \in Int /\ q1.from < r.from
        BY <1>1, <1>2
      <4> QED BY <1>1, <3>2, <3>3, <4>1, <4>2 DEF InForce
    <3>5. InForce(Open(m), d)
      BY <1>1, <1>2, <1>4, <2>4, <3>3, <3>4 DEF InForce
    <3> QED BY <1>6, <3>3, <3>5
  <2>5. d < r.from \/ d >= r.from
    BY <1>1
  <2> QED BY <2>3, <2>4, <2>5, Zenon
<1>13. History(qs)
  BY <1>7, <1>8, <1>9, <1>12 DEF History
<1>14. ASSUME NEW d \in Int, d < r.from
       PROVE  TemplateOn(rs, d) = TemplateOn(qs, d)
  <2>1. ASSUME NEW p \in rs, InForce(p, d)
        PROVE  \E q \in qs : InForce(q, d) /\ q.schedule = p.schedule
    <3>1. p \in left
      BY <1>1, <1>14, <2>1 DEF InForce
    <3> QED BY <1>4, <1>6, <1>11, <2>1, <3>1
  <2>2. ASSUME NEW q \in qs, InForce(q, d) PROVE \E p \in rs : InForce(p, d)
    <3>1. PICK p \in left : q = Open(p)
      BY <1>5
    <3> QED BY <1>2, <1>10, <1>14, <2>2, <3>1
  <2>3. InForceAlike(rs, qs, d)
    BY <2>1, <2>2 DEF InForceAlike
  <2> QED BY <1>13, <2>3, SameTemplate
<1> QED BY <1>13, <1>14

-----------------------------------------------------------------------------
(* The steps.                                                              *)

\* processEvents recomputes the day the punch belongs to, which the snapshot it loads knows.
LEMMA PunchStep ==
  ASSUME IInv, NEW t \in Instants, ProcessPunch(t), UNCHANGED <<rows, holidays>>,
         punches' \subseteq Instants, punches' \ {t} = punches \ {t},
         changes' \in 0..MaxChanges
  PROVE  IInv'
<1> DEFINE from == LocalDate(t) - 1
           snapshot == SnapshotOf(rows', holidays', from, LastDate)
           owner == WorkDateOf(snapshot, t)
<1>1. t \in Int /\ LocalDate(t) \in Past /\ LocalDate(t) \in Int /\ LastDate \in Int
      /\ from \in Int /\ 1 <= LocalDate(t) /\ LocalDate(t) <= LastDate
  BY DEF Past
<1>2. Recompute({owner}, from, LastDate)
  BY DEF ProcessPunch
<1>3. History(rows') /\ holidays' \in SUBSET Days /\ Calendar' = Calendar
  BY DEF IInv, TypeOK, Calendar
<1>4. /\ snapshot \in [Dates -> Context]
      /\ \A d \in Dates : from - 2 <= d /\ d <= LastDate + 2 => snapshot[d] = Calendar'[d]
  BY <1>1, <1>3, SnapshotIs DEF Calendar
<1>5. \A d \in Around(t) :
        /\ d \in Dates /\ d \in Int /\ snapshot[d] \in Context /\ snapshot[d] = Calendar'[d]
        /\ from <= d
  <2> SUFFICES ASSUME NEW d \in Around(t)
               PROVE  /\ d \in Dates /\ d \in Int /\ snapshot[d] \in Context
                      /\ snapshot[d] = Calendar'[d] /\ from <= d
    OBVIOUS
  <2>1. d \in Dates /\ d \in Int /\ d <= LastDate + 1
    BY <1>1, AroundDates
  <2>2. from <= d
    BY <1>1 DEF Around
  <2> HIDE DEF snapshot
  <2> QED BY <1>1, <1>4, <2>1, <2>2
<1>6. owner = WorkDateOf(Calendar', t) /\ owner \in Around(t)
  <2> HIDE DEF snapshot, from
  <2> QED BY <1>1, <1>5, OwnerIsLocal, OwnerIs
<1>7. \A d \in Days \ {owner} :
        RecordOf(Calendar', d, punches') = RecordOf(Calendar', d, punches)
  <2> SUFFICES ASSUME NEW d \in Days, d # WorkDateOf(Calendar', t)
               PROVE  RecordOf(Calendar', d, punches') = RecordOf(Calendar', d, punches)
    BY <1>6
  <2> QED BY DayIgnores DEF RecordOf
<1>8. \A d \in {owner} \cap Days : from <= d /\ (d <= LastDate \/ LastDate = LastDate)
  BY <1>5, <1>6
<1>9. \A d \in Past \ {owner} : d >= LastDate - Retroactive =>
        CalendarOf(rows', holidays')[d] = Calendar[d]
  BY <1>3 DEF Calendar
<1>10. punches' \in SUBSET Instants
  OBVIOUS
<1> HIDE DEF owner, from
<1> QED BY <1>1, <1>2, <1>3, <1>7, <1>8, <1>9, <1>10, RecomputeKeeps

LEMMA ChangeType ==
  ASSUME TypeOK, Change
  PROVE  changes' \in 0..MaxChanges
BY DEF TypeOK, Change

\* A holiday changes its own date only, and that date is recomputed unless it is to come.
LEMMA HolidayStep ==
  ASSUME IInv, NEW d \in Days, Change, UNCHANGED <<rows, punches>>,
         holidays' \in SUBSET Days, holidays' \ {d} = holidays \ {d},
         Recompute({d} \cap Past, d, d)
  PROVE  IInv'
<1>1. History(rows') /\ punches' \in SUBSET Instants /\ changes' \in 0..MaxChanges
  BY ChangeType DEF IInv, TypeOK
<1>2. d \in Int
  BY DEF Days
<1>3. \A e \in Past \ ({d} \cap Past) : CalendarOf(rows', holidays')[e] = Calendar[e]
  <2> SUFFICES ASSUME NEW e \in Past, e # d
               PROVE  CalendarOf(rows', holidays')[e] = Calendar[e]
    OBVIOUS
  <2>1. e \in Dates
    BY DEF Past, Dates
  <2>2. e \in holidays' <=> e \in holidays
    OBVIOUS
  <2> QED BY <2>1, <2>2 DEF CalendarOf, Calendar
<1>4. \A e \in ({d} \cap Past) \cap Days : d <= e /\ (e <= d \/ d = LastDate)
  BY <1>2
<1>5. \A e \in Days \ ({d} \cap Past) :
        RecordOf(Calendar', e, punches') = RecordOf(Calendar', e, punches)
  OBVIOUS
<1> QED BY <1>1, <1>2, <1>3, <1>4, <1>5, RecomputeKeeps

\* A change of the history from a date on recomputes every day it reaches within the limit.
LEMMA ScheduleStep ==
  ASSUME IInv, NEW from \in Days, Change, UNCHANGED <<holidays, punches>>, History(rows'),
         \A d \in Int : d < from => TemplateOn(rows', d) = TemplateOn(rows, d),
         RecomputeSince(from)
  PROVE  IInv'
<1> DEFINE limit == LastDate - Retroactive
           start == IF from < limit THEN limit ELSE from
<1>1. /\ punches' \in SUBSET Instants /\ holidays' \in SUBSET Days
      /\ changes' \in 0..MaxChanges
  BY ChangeType DEF IInv, TypeOK
<1>2. /\ from \in Int /\ LastDate \in Int /\ limit \in Int /\ start \in Int
      /\ Recompute(start..LastDate, start, LastDate)
  BY DEF Days, RecomputeSince
<1>3. \A d \in Past \ (start..LastDate) : d >= LastDate - Retroactive =>
        CalendarOf(rows', holidays')[d] = Calendar[d]
  <2> SUFFICES ASSUME NEW d \in Past \ (start..LastDate), d >= LastDate - Retroactive
               PROVE  CalendarOf(rows', holidays')[d] = Calendar[d]
    OBVIOUS
  <2>1. d \in Int /\ d \in Dates /\ d <= LastDate
    BY DEF Past, Dates
  <2>2. d < from
    BY <1>2, <2>1
  <2>3. TemplateOn(rows', d) = TemplateOn(rows, d)
    BY <2>1, <2>2
  <2> QED BY <2>1, <2>3 DEF CalendarOf, Calendar
<1>4. \A d \in (start..LastDate) \cap Days : start <= d /\ (d <= LastDate \/ LastDate = LastDate)
  OBVIOUS
<1>5. \A d \in Days \ (start..LastDate) :
        RecordOf(Calendar', d, punches') = RecordOf(Calendar', d, punches)
  BY DEF Days
<1> HIDE DEF start, limit
<1> QED BY <1>1, <1>2, <1>3, <1>4, <1>5, RecomputeKeeps

LEMMA RequestStep ==
  ASSUME IInv, NEW from \in Past, NEW to \in Past, RequestRecompute(from, to)
  PROVE  IInv'
<1>1. /\ UNCHANGED <<rows, holidays, punches, changes>> /\ Recompute(from..to, from, to)
      /\ from \in Int /\ to \in Int
  BY DEF RequestRecompute, Past
<1>2. /\ History(rows') /\ holidays' \in SUBSET Days /\ punches' \in SUBSET Instants
      /\ changes' \in 0..MaxChanges
  BY <1>1 DEF IInv, TypeOK
<1>3. CalendarOf(rows', holidays') = Calendar
  BY <1>1 DEF Calendar
<1>4. \A d \in (from..to) \cap Days : from <= d /\ (d <= to \/ to = LastDate)
  BY <1>1
<1> QED BY <1>1, <1>2, <1>3, <1>4, RecomputeKeeps

LEMMA InitInv == Init => IInv
<1> SUFFICES ASSUME Init PROVE IInv
  OBVIOUS
<1>1. History(rows)
  BY DEF Init, History, WellFormed, Distinct, Consecutive, NoGap
<1>2. \A d : RecordOf(Calendar, d, {}) = [counted |-> {}, strays |-> {}]
  BY DEF RecordOf, Counted, Strays, Own
<1>3. TypeOK
  BY <1>2 DEF Init, TypeOK
<1>4. Fresh
  BY DEF Init, Fresh
<1>5. DayReached
  BY DEF Init, DayReached, Past, Days
<1> QED BY <1>1, <1>3, <1>4, <1>5 DEF IInv

LEMMA StepInv == IInv /\ [Next]_vars => IInv'
<1> SUFFICES ASSUME IInv, [Next]_vars PROVE IInv'
  OBVIOUS
<1>1. ASSUME NEW t \in Instants, StorePunch(t) PROVE IInv'
  <2>1. /\ Change /\ ProcessPunch(t) /\ UNCHANGED <<rows, holidays>>
        /\ punches' = punches \cup {t}
    BY <1>1 DEF StorePunch
  <2>2. punches' \subseteq Instants /\ punches' \ {t} = punches \ {t}
    BY <2>1 DEF IInv, TypeOK
  <2>3. changes' \in 0..MaxChanges
    BY <2>1, ChangeType DEF IInv
  <2> QED BY <2>1, <2>2, <2>3, PunchStep
<1>2. ASSUME NEW t \in Instants, VoidPunch(t) PROVE IInv'
  <2>1. /\ Change /\ ProcessPunch(t) /\ UNCHANGED <<rows, holidays>>
        /\ punches' = punches \ {t}
    BY <1>2 DEF VoidPunch
  <2>2. punches' \subseteq Instants /\ punches' \ {t} = punches \ {t}
    BY <2>1 DEF IInv, TypeOK
  <2>3. changes' \in 0..MaxChanges
    BY <2>1, ChangeType DEF IInv
  <2> QED BY <2>1, <2>2, <2>3, PunchStep
<1>3. ASSUME NEW d \in Days, CreateHoliday(d) PROVE IInv'
  <2>1. /\ Change /\ UNCHANGED <<rows, punches>> /\ holidays' = holidays \cup {d}
        /\ Recompute({d} \cap Past, d, d)
    BY <1>3 DEF CreateHoliday
  <2>2. holidays' \in SUBSET Days /\ holidays' \ {d} = holidays \ {d}
    BY <2>1 DEF IInv, TypeOK
  <2> QED BY <2>1, <2>2, HolidayStep
<1>4. ASSUME NEW d \in Days, RemoveHoliday(d) PROVE IInv'
  <2>1. /\ Change /\ UNCHANGED <<rows, punches>> /\ holidays' = holidays \ {d}
        /\ Recompute({d} \cap Past, d, d)
    BY <1>4 DEF RemoveHoliday
  <2>2. holidays' \in SUBSET Days /\ holidays' \ {d} = holidays \ {d}
    BY <2>1 DEF IInv, TypeOK
  <2> QED BY <2>1, <2>2, HolidayStep
<1>5. ASSUME NEW s \in Schedules, NEW from \in Days, Assign(s, from) PROVE IInv'
  <2>1. /\ Change /\ UNCHANGED <<holidays, punches>> /\ RecomputeSince(from)
        /\ \A r \in rows : r.from < from
        /\ rows' = {Closed(r, from) : r \in rows}
                     \cup {[from |-> from, to |-> None, schedule |-> s]}
    BY <1>5 DEF Assign
  <2>2. /\ History(rows')
        /\ \A d \in Int : d < from => TemplateOn(rows', d) = TemplateOn(rows, d)
    <3>1. History(rows)
      BY DEF IInv
    <3> QED BY <2>1, <3>1, AssignHistory
  <2> QED BY <2>1, <2>2, ScheduleStep
<1>6. ASSUME NEW r \in rows, Unassign(r) PROVE IInv'
  <2>1. /\ Change /\ UNCHANGED <<holidays, punches>> /\ RecomputeSince(r.from)
        /\ \A q \in rows : q.from <= r.from
        /\ rows' = Reopened(rows \ {r})
    BY <1>6 DEF Unassign
  <2>2. /\ History(rows')
        /\ \A d \in Int : d < r.from => TemplateOn(rows', d) = TemplateOn(rows, d)
    BY <2>1, UnassignHistory DEF IInv
  <2>3. r.from \in Days
    BY DEF IInv, TypeOK, Row
  <2> QED BY <2>1, <2>2, <2>3, ScheduleStep
<1>7. ASSUME NEW from \in Past, NEW to \in Past, RequestRecompute(from, to) PROVE IInv'
  BY <1>7, RequestStep
<1>8. CASE UNCHANGED vars
  BY <1>8 DEF vars, IInv, TypeOK, Fresh, DayReached, Calendar
<1> QED BY <1>1, <1>2, <1>3, <1>4, <1>5, <1>6, <1>7, <1>8 DEF Next

-----------------------------------------------------------------------------
(* The theorems.                                                           *)

LEMMA Invariance == Spec => []IInv
BY InitInv, StepInv, PTL DEF Spec

\* Types, and no row of the history ends before it starts, however assignments are made and
\* undone (createAssignment, unassign).
THEOREM TypeCorrect == Spec => []TypeOK
<1>1. IInv => TypeOK
  BY DEF IInv
<1> QED BY <1>1, Invariance, PTL

\* From the first assignment on exactly one row is in force on every date.
THEOREM OneSchedule == Spec => []OneScheduleEachDay
<1>1. IInv => OneScheduleEachDay
  <2> SUFFICES ASSUME IInv, NEW d \in Dates, \E r \in rows : r.from <= d
               PROVE  \E r \in rows : \A q \in rows : InForce(q, d) <=> q = r
    BY DEF OneScheduleEachDay
  <2>1. d \in Int /\ History(rows)
    BY DEF Dates, IInv
  <2>2. PICK r \in rows : InForce(r, d)
    BY <2>1 DEF History, NoGap
  <2>3. \A q \in rows : InForce(q, d) <=> q = r
    BY <2>1, <2>2, InForceUnique
  <2> QED BY <2>3
<1> QED BY <1>1, Invariance, PTL

\* The dates around an instant of the days that are past are known to every calendar.
LEMMA ClockKnown ==
  ASSUME NEW cal \in [Dates -> Context], NEW s \in Clock
  PROVE  s \in Int /\ \A d \in Around(s) : cal[d] \in Context
<1>1. /\ s \in Int /\ Midnight(1) <= s /\ s < Midnight(LastDate + 1)
      /\ Midnight(1) \in Int /\ Midnight(LastDate + 1) \in Int
  BY MidnightStep DEF Clock
<1>2. LocalDate(s) \in Int /\ 1 <= LocalDate(s) /\ LocalDate(s) <= LastDate
  <2>1. 1 \in Int /\ LastDate + 1 \in Int
    OBVIOUS
  <2>2. LocalDate(s) \in Int /\ 1 <= LocalDate(s) /\ LocalDate(s) < LastDate + 1
    BY <1>1, <2>1, LocalDateBetween, LocalDateType, Zenon
  <2> QED BY <2>2
<1>3. \A d \in Around(s) : d \in Dates
  BY <1>1, <1>2, AroundDates DEF Past
<1> QED BY <1>1, <1>3

\* Whatever the schedules, the windows and the holidays, assignWorkDate never gives a later
\* punch to an earlier day.
THEOREM PunchesInOrder == Spec => []InOrder
<1>1. IInv => InOrder
  <2> SUFFICES ASSUME IInv, NEW t \in Clock, NEW u \in Clock, t <= u
               PROVE  WorkDateOf(Calendar, t) <= WorkDateOf(Calendar, u)
    BY DEF InOrder
  <2>1. /\ Calendar \in [Dates -> Context]
    BY CalendarType DEF IInv, History, WellFormed, Calendar
  <2>2. \A s \in Clock : s \in Int /\ \A d \in Around(s) : Calendar[d] \in Context
    BY <2>1, ClockKnown
  <2> QED BY <2>2, OwnersInOrder
<1> QED BY <1>1, Invariance, PTL

\* Within the retroactive limit the record of a day is out of date only if a day at most two
\* before or after it changed since, and never because the day itself changed or a punch of its
\* own came or went.
THEOREM StaleOnlyBesideChanges == Spec => []StaleOnlyNearAChange
<1>1. IInv => StaleOnlyNearAChange
  <2>1. Past \subseteq Days
    BY DEF Past, Days
  <2> QED BY <2>1 DEF IInv, Fresh, DayReached, StaleOnlyNearAChange
<1> QED BY <1>1, Invariance, PTL

-----------------------------------------------------------------------------
(* The nearest of all shifts.                                              *)

\* No window reaches further than the date before its shift and the one after: the policy allows
\* twelve hours before a shift (attendance-policy.ts), and after it what is left of the next date.
WindowsReachOneDate ==
  /\ Before <= DayLength
  /\ \A s \in Templates : ~s.flexible =>
        s.end + After <= IF s.end <= s.start THEN DayLength ELSE 2 * DayLength

\* Whoever claims a punch is around it.
LEMMA ClaimedAround ==
  ASSUME WindowsReachOneDate, NEW cal, NEW d \in Int, cal[d] \in Context, NEW t \in Int,
         Claims(cal, d, t)
  PROVE  d \in Claimants(cal, t)
<1>1. HasShift(cal, d) /\ From(cal, d) <= t /\ t < To(cal, d)
  BY DEF Claims, InWindow
<1>2. /\ Midnight(d) \in Int /\ Midnight(d + 1) = Midnight(d) + DayLength
      /\ Midnight(d - 1) = Midnight(d) - DayLength
      /\ Midnight(d + 2) = Midnight(d) + 2 * DayLength
  BY DayLengthAssumption DEF Midnight
<1>3. Midnight(d - 1) <= t /\ t < Midnight(d + 2)
  <2>1. /\ cal[d].template \in Templates
        /\ cal[d].template.start \in 0..(DayLength - 1)
        /\ cal[d].template.end \in 0..(DayLength - 1)
    BY <1>1, TemplateAssumption DEF HasShift, Context
  <2>2. CASE FixedHours(cal, d)
    <3>1. From(cal, d) = Midnight(d) + cal[d].template.start - Before
      BY <1>2, <2>1, <2>2, PolicyAssumption DEF From, StartOf
    <3>2. CASE cal[d].template.end <= cal[d].template.start
      <4>1. To(cal, d) = Midnight(d + 1) + cal[d].template.end + After
        BY <2>2, <3>2 DEF To, EndOf
      <4>2. cal[d].template.end + After <= DayLength
        BY <2>1, <2>2, <3>2 DEF WindowsReachOneDate, FixedHours
      <4> QED BY <1>1, <1>2, <2>1, <3>1, <4>1, <4>2, DayLengthAssumption, PolicyAssumption
              DEF WindowsReachOneDate
    <3>3. CASE ~(cal[d].template.end <= cal[d].template.start)
      <4>1. To(cal, d) = Midnight(d) + cal[d].template.end + After
        BY <2>2, <3>3 DEF To, EndOf
      <4>2. cal[d].template.end + After <= 2 * DayLength
        BY <2>1, <2>2, <3>3 DEF WindowsReachOneDate, FixedHours
      <4> QED BY <1>1, <1>2, <2>1, <3>1, <4>1, <4>2, DayLengthAssumption, PolicyAssumption
              DEF WindowsReachOneDate
    <3> QED BY <3>2, <3>3
  <2>3. CASE ~FixedHours(cal, d)
    <3>1. From(cal, d) = Midnight(d) /\ To(cal, d) = Midnight(d + 1)
      BY <2>3 DEF From, To
    <3> QED BY <1>1, <1>2, <3>1, DayLengthAssumption
  <2> QED BY <2>2, <2>3
<1>4. LocalDate(t) \in Int /\ d - 1 <= LocalDate(t) /\ LocalDate(t) < d + 2
  <2>1. d - 1 \in Int /\ d + 2 \in Int
    OBVIOUS
  <2> QED BY <1>3, <2>1, LocalDateBetween, LocalDateType, Zenon
<1>5. d \in Around(t)
  BY <1>4 DEF Around
<1> QED BY <1>5 DEF Claimants

\* While no window reaches further than one date: a punch belongs to the nearest of all the shifts
\* that claim it, however the calendar came about, though only the dates around it are asked
\* (workDateOf).
THEOREM NearestOwnsThePunch ==
  ASSUME WindowsReachOneDate
  PROVE  Spec => []NearestOfAll
<1>1. IInv => NearestOfAll
  <2> SUFFICES ASSUME IInv, NEW t \in Clock, NEW d \in Dates, Claims(Calendar, d, t)
               PROVE  /\ Claims(Calendar, WorkDateOf(Calendar, t), t)
                      /\ Nearer(Calendar, t, WorkDateOf(Calendar, t), d)
    BY DEF NearestOfAll
  <2>1. Calendar \in [Dates -> Context]
    BY CalendarType DEF IInv, History, WellFormed, Calendar
  <2>2. t \in Int /\ \A e \in Around(t) : Calendar[e] \in Context
    BY <2>1, ClockKnown
  <2>3. d \in Int /\ Calendar[d] \in Context
    BY <2>1 DEF Dates
  <2>4. d \in Claimants(Calendar, t)
    BY <2>2, <2>3, ClaimedAround
  <2>5. /\ WorkDateOf(Calendar, t) \in Claimants(Calendar, t)
        /\ Nearer(Calendar, t, WorkDateOf(Calendar, t), d)
    BY <2>2, <2>4, OwnerIs
  <2> QED BY <2>5 DEF Claimants
<1> QED BY <1>1, Invariance, PTL
=============================================================================
