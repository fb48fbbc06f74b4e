SPECIFICATION IntrSpec
CONSTANTS
  t0 = t0
  t1 = t1
  ti = ti
  irq10 = irq10
  irq11 = irq11
  Thread = {t0, t1, ti}
  init_thread = t0
  isr_thread = ti
  Irq = {irq10, irq11}
  MaxTime = 1
  MaxSleep = 1
  MaxRaise = 2
INVARIANT EstablishedUnmasked
