SPECIFICATION Spec
CONSTANTS
  PGSIZE = 2
  FANOUT = 5
  KERNBASE = 100
  PHYSTOP = 118
  UART0 = 2
  kernel_end = 102
  Keep = 3
  CallVA <- MCCallVA
  CallPA <- MCCallPA
INVARIANTS
  TreeSound
  KernelMapped
PROPERTIES
  KvminitExact
  ImplementsAddressSpace
