------------------------------- MODULE Spawn -------------------------------
(***************************************************************************)
(* compute_spawn (neat/reproduction.py): how many genomes each species may *)
(* contribute to the next generation.  Fractions are exact here: adjusted  *)
(* fitness comes as a natural number, as only its ratios matter.           *)
(***************************************************************************)
EXTENDS Integers, Functions, FiniteSetsExt

\* round(x / y) for y > 0: the nearest integer, the even one of two.
RoundHalfEven(x, y) ==
  LET q == x \div y
      r == 2 * (x % y)
  IN  IF r < y \/ (r = y /\ q % 2 = 0) THEN q ELSE q + 1

\* Mutant: the step of one goes up also where the share is smaller.
SignUnsigned(x) == IF x # 0 THEN 1 ELSE 0

Sign(x) == IF x > 0 THEN 1 ELSE IF x < 0 THEN -1 ELSE 0

\* Half of the way from the previous size to the share, at least one.  The
\* share comes in fractions of 1 / unit.
HalfWay(size, share, unit) ==
  LET d == share - size * unit
      c == RoundHalfEven(d, 2 * unit)
  IN  size + (IF c # 0 THEN c ELSE Sign(d))

AtLeast(amount, min_species_size) == Max({amount, min_species_size})

\* The amounts before they are normalised.  Mutant of compute_spawn: they are
\* not normalised.
raw_amounts(adjusted_fitness, previous_sizes, pop_size, min_species_size) ==
  LET af_sum == SumFunction(adjusted_fitness)
      unit   == Max({af_sum, 1})
  IN  [i \in DOMAIN adjusted_fitness |->
        HalfWay(previous_sizes[i],
                Max({min_species_size * unit, adjusted_fitness[i] * (IF af_sum > 0 THEN pop_size ELSE 0)}),
                unit)]

compute_spawn(adjusted_fitness, previous_sizes, pop_size, min_species_size) ==
  LET raw   == raw_amounts(adjusted_fitness, previous_sizes, pop_size, min_species_size)
      total == SumFunction(raw)
  IN  [i \in DOMAIN raw |-> AtLeast(RoundHalfEven(raw[i] * pop_size, total), min_species_size)]
=============================================================================
