SPECIFICATION Spec
CONSTANTS
  kernel = kernel
  a = a
  b = b
  Name = {kernel, a, b}
  Kernel = kernel
  UsizeMax = 9
  MaxReAdds = 0
  MaxAdds = 0
  FileLists <- MCFileLists
INVARIANT DependenciesFirst
